---- MODULE Spec2Model ----
(***************************************************************************)
(* AT transport of the solar monitor firmware (bt-core/src/at.rs): the     *)
(* runner task, the client lease (use_controller) and the controller's     *)
(* line framing and command execution, modelled on a cooperative           *)
(* single-threaded executor: a task that is polled runs until every await  *)
(* it reaches is pending.                                                  *)
(***************************************************************************)
EXTENDS Integers, Sequences, FiniteSets, TLC

VARIABLES
    state,         \* Runner::run: the local enum State
    rpc,           \* Runner::run: the await the runner is suspended at
    tx_channel,    \* State.tx_channel (client -> runner requests)
    rx_channel,    \* State.rx_channel (runner -> client replies)
    mutex,         \* State.at_controller: who holds the controller mutex
    stream,        \* AtControllerImpl.stream: bytes received, not yet read
    line_buffer,   \* AtControllerImpl.line_buffer
    have_cr,       \* read_line: local flag of the read_line future in progress
    cpc,           \* use_controller: the await the client is suspended at
    op,            \* the request the closure executes
    phase,         \* position inside handle_command / http_read
    lines,         \* the response lines collected so far
    buf,           \* the caller's buffer filled by http_read
    response,      \* the value the closure returned
    ret,           \* the value use_controller returned to its caller
    ncmd,          \* number of commands written to the modem so far
    last_written,  \* the last command line written to the modem
    modem_todo,    \* modem: commands received and not answered yet
    sent,          \* modem: number of chunks sent so far
    steps,         \* history: lease steps of the call in progress
    events,        \* history: stream events of the operation in progress
    urc_log,       \* history: the lines handed to handle_urc
    calls,         \* history: number of use_controller calls started
    cancels,       \* history: number of use_controller futures dropped
    running        \* executor: the task being polled

VARIABLES
    response_body, \* HttpResponseBody: the fields len and pos
    bpc,           \* HttpResponseBody: what its caller is doing
    rd,            \* read: buf.len(), pos at entry, len, the request issued
    rd_ret,        \* read: its last result
    rte,           \* read_to_end: buf.len() at entry and left, total_read
    rte_ret,       \* read_to_end: its last result
    requests,      \* history: the (offset, len) of the AT+HTTPREAD issued
    returned,      \* history: number of body bytes returned by read
    nreads         \* history: number of calls of read / read_to_end

\* the AT transport
atVars == <<state, rpc, tx_channel, rx_channel, mutex, stream, line_buffer,
            have_cr, cpc, op, phase, lines, buf, response, ret, ncmd,
            last_written, modem_todo, sent, steps, events, urc_log, calls,
            cancels, running>>

bodyVars == <<response_body, bpc, rd, rd_ret, rte, rte_ret, requests, returned, nreads>>

VARIABLES
    cloud_state,       \* CloudController: state
    cloud_pc,          \* CloudController: position in once and its handlers
    cloud_job,         \* CloudController: what the HTTP request in progress posts
    http_initialized,  \* SimComCellularModule: http_initialized
    time_synced,       \* UtcTime: SYSTEM_BOOT_TIME is Some
    upload_channel,    \* the upload channel (payload numbers)
    modem_up,          \* environment: the modem answers AT commands
    last_cmd,          \* history: the AT command issued last
    init_ok,           \* history: AT+HTTPINIT succeeded since the last power_on
    inits,             \* history: AT+HTTPINIT issued since the last power_on
    once_state,        \* history: state at the entry of the current once
    handler_log,       \* history: what the current once completed, in order
    uploads_sent       \* history: number of payloads sent to the channel

cloudVars == <<cloud_state, cloud_pc, cloud_job, http_initialized, time_synced,
               upload_channel, modem_up, last_cmd, init_ok, inits, once_state,
               handler_log, uploads_sent>>

VARIABLES
    avg_channel,       \* the averaged-reading channel (reading numbers)
    ve_pc,             \* ve_direct::Runner: position in averaging_once
    average,           \* ve_direct::Runner: the average it is sending
    mon_pc,            \* solar_monitor::Runner: position in run_once
    upload,            \* solar_monitor::Runner: upload, <<>> for None
    mon_held,          \* solar_monitor::Runner: the batch it is sending
    readings_made,     \* history: number of averages computed
    taken,             \* history: readings put into a batch, in order
    encoded,           \* history: batches encoded, in order
    delivered,         \* history: batches sent to the upload channel
    received           \* history: batches received from the upload channel

pipeVars == <<avg_channel, ve_pc, average, mon_pc, upload, mon_held,
              readings_made, taken, encoded, delivered, received>>

VARIABLES
    instant,           \* Instant::now().as_secs()
    system_boot_time,  \* UtcTime: SYSTEM_BOOT_TIME
    cur_upload,        \* solar_monitor::Runner: upload, with its timestamps
    uploads_emitted,   \* history: number of uploads handle_reading returned
    accepted,          \* history: number of readings put into a batch
    hr,                \* history: the last call of handle_reading
    last_sync,         \* history: the last call of time_sync
    nreadings,         \* history: number of calls of handle_reading
    nsyncs             \* history: number of calls of time_sync

monVars == <<instant, system_boot_time, cur_upload,
             uploads_emitted, accepted, hr, last_sync, nreadings, nsyncs>>

VARIABLES
    fh,                \* ve_direct::FrameHandler, and where run_once stands
    frame,             \* history: the bytes read since the carriage return
                       \* that ended the scan, that byte included
    ve_out,            \* history: how run_once returned last
    ve_fed             \* history: number of chunks the stream delivered

veVars == <<fh, frame, ve_out, ve_fed>>

VARIABLES
    averaging,         \* ve_direct::Averaging: sum and count
    apc,               \* ve_direct::Runner: where run stands
    ve_clock,          \* Instant::now() of the sensor task
    ve_end,            \* averaging_once: end
    collected,         \* history: the readings added since the last reset
    avg_call,          \* history: the last call of add_reading or average
    avg_calls,         \* history: number of calls made without a Runner
    avg_sent,          \* history: the average sent last
    read_at,           \* history: the time read_next returned last
    n_validated,       \* history: number of readings read_next returned
    n_averaged         \* history: number of readings in the averages sent

avgVars == <<averaging, apc, ve_clock, ve_end, collected, avg_call,
             avg_calls, avg_sent, read_at, n_validated, n_averaged>>

VARIABLES
    rtc_line,          \* status_control: the fields of the +CCLK reply
    rtc_parsed         \* status_control: what parse_rtc_date_time returned

rtcVars == <<rtc_line, rtc_parsed>>

\* the AT command set
cmdVars == <<rtcVars>>

otherVars == <<monVars, veVars, avgVars, cmdVars>>

\* the components above the AT transport
extVars == <<bodyVars, cloudVars, pipeVars, otherVars>>

vars == <<atVars, extVars>>

runnerVars == <<state, rpc>>
chanVars == <<tx_channel, rx_channel>>
opVars == <<op, phase, lines, buf, response, events>>
writeVars == <<ncmd, last_written>>
modemVars == <<modem_todo, sent>>
leaseVars == <<cpc, ret, steps, calls, cancels>>

----------------------------------------------------------------------------
(* Bounds of the model *)

MaxCalls == 3
MaxCancels == 1
MaxChunks == 2
MaxCtrCalls == 1
MaxCtrChunks == 6
MaxLen == 2
MaxWrCalls == 2
MaxWrChunks == 3

(* Program constants *)

CHANNEL_SIZE == 2
AT_BUFFER_SIZE == 256
MAX_RESPONSE_LINES == 4

----------------------------------------------------------------------------
(* Bytes and strings.  A byte is a one-character string; CR and LF are the *)
(* line terminators.  A string is a sequence of bytes.                     *)

CR == "CR"
LF == "LF"
INVALID == "0xFF"

S_OK == <<"O", "K">>
S_DOWNLOAD == <<"D", "O", "W", "N", "L", "O", "A", "D">>
S_ERROR == <<"E", "R", "R", "O", "R">>
S_AT == <<"A", "T">>
S_HTTPREAD_CMD == <<"A", "T", "+", "H", "T", "T", "P", "R", "E", "A", "D", "=">>
S_HTTPREAD_URC == <<"+", "H", "T", "T", "P", "R", "E", "A", "D", ":", " ">>
S_HTTPDATA_CMD == <<"A", "T", "+", "H", "T", "T", "P", "D", "A", "T", "A", "=">>
S_HTTPACTION_CMD == <<"A", "T", "+", "H", "T", "T", "P", "A", "C", "T", "I", "O", "N", "=", "0">>
S_HTTPACTION_URC == <<"+", "H", "T", "T", "P", "A", "C", "T", "I", "O", "N", ":", " ">>

Digits == <<"0", "1", "2", "3", "4", "5", "6", "7", "8", "9">>

RECURSIVE Dec(_)
Dec(n) ==
    IF n < 10 THEN <<Digits[n + 1]>>
    ELSE Dec(n \div 10) \o <<Digits[(n % 10) + 1]>>

StartsWith(s, prefix) ==
    /\ Len(prefix) <= Len(s)
    /\ SubSeq(s, 1, Len(prefix)) = prefix

(* A received byte carries two ghost labels: k, the number of the command  *)
(* the modem sent it in reply to (0: unsolicited), and body, whether it is *)
(* a raw HTTP body byte.                                                   *)
Tagged(s, k, body) == [i \in 1..Len(s) |-> [b |-> s[i], k |-> k, body |-> body]]

Bytes(tl) == [i \in 1..Len(tl) |-> tl[i].b]

Tags(tl) == {tl[i].k : i \in 1..Len(tl)}

HasBody(tl) == \E i \in 1..Len(tl) : tl[i].body

IsUtf8(tl) == \A i \in 1..Len(tl) : tl[i].b # INVALID

----------------------------------------------------------------------------
(* AtControllerImpl::read_line, one received byte at a time *)

NoRet == [kind |-> "none", line |-> <<>>]

ReadLineStep(lb, hc, c) ==
    IF c.b = CR THEN [lb |-> lb, hc |-> TRUE, ret |-> NoRet]
    ELSE IF c.b = LF THEN
        IF lb # <<>> THEN
            IF IsUtf8(lb)
            THEN [lb |-> <<>>, hc |-> FALSE, ret |-> [kind |-> "line", line |-> lb]]
            ELSE [lb |-> <<>>, hc |-> FALSE, ret |-> NoRet]
        ELSE [lb |-> lb, hc |-> FALSE, ret |-> NoRet]
    ELSE IF Len(lb) < AT_BUFFER_SIZE
        THEN [lb |-> Append(lb, c), hc |-> hc, ret |-> NoRet]
        ELSE [lb |-> lb, hc |-> FALSE, ret |-> [kind |-> "err", line |-> <<>>]]

----------------------------------------------------------------------------
(* Requests and results *)

NoOp == [kind |-> "none", command |-> <<>>, has_prefix |-> FALSE,
         urc_prefix |-> <<>>, len |-> 0, offset |-> 0]

\* AtCommandRequest::new and with_urc_prefix
AtCommandRequest(command) ==
    [kind |-> "command", command |-> command, has_prefix |-> FALSE,
     urc_prefix |-> <<>>, len |-> 0, offset |-> 0]

WithUrcPrefix(req, prefix) ==
    [req EXCEPT !.has_prefix = TRUE, !.urc_prefix = prefix]

\* a call of handle_http_read(buf, offset) with buf.len() = len
HttpReadRequest(len, offset) ==
    [kind |-> "http_read", command |-> <<>>, has_prefix |-> FALSE,
     urc_prefix |-> <<>>, len |-> len, offset |-> offset]

\* a call of handle_http_write(buf) with buf.len() = len
HttpWriteRequest(len) ==
    [kind |-> "http_write", command |-> <<>>, has_prefix |-> FALSE,
     urc_prefix |-> <<>>, len |-> len, offset |-> 0]

Ok(lns) == [ok |-> TRUE, err |-> "none", lines |-> lns]

Err(e) == [ok |-> FALSE, err |-> e, lines |-> <<>>]

NoResult == Err("none")

Continue(ph, lns) == [done |-> FALSE, phase |-> ph, lines |-> lns, result |-> NoResult]

Done(r) == [done |-> TRUE, phase |-> "none", lines |-> <<>>, result |-> r]

----------------------------------------------------------------------------
(* AtControllerImpl: what one complete line does to the operation in       *)
(* progress.  next is what follows the success of the read loop.           *)

\* the echo of the command is kept as a response line
ReadResponseLinesKeepsEcho(command, lns, line, next) ==
    IF Bytes(line) = S_OK \/ Bytes(line) = S_DOWNLOAD THEN next
    ELSE IF Bytes(line) = S_ERROR THEN Done(Err("Error"))
    ELSE IF Len(lns) < MAX_RESPONSE_LINES
        THEN Continue("response", Append(lns, line))
        ELSE Done(Err("CapacityError"))

\* the body of the loop of read_response_lines
ReadResponseLines(command, lns, line, next) ==
    IF Bytes(line) = S_OK \/ Bytes(line) = S_DOWNLOAD THEN next
    ELSE IF Bytes(line) = S_ERROR THEN Done(Err("Error"))
    ELSE IF Bytes(line) = command THEN Continue("response", lns)
    ELSE IF Len(lns) < MAX_RESPONSE_LINES
        THEN Continue("response", Append(lns, line))
        ELSE Done(Err("CapacityError"))

\* the body of the loop of read_line_until_urc
ReadLineUntilUrc(ph, prefix, lns, line, next) ==
    IF Len(lns) >= MAX_RESPONSE_LINES THEN Done(Err("CapacityError"))
    ELSE IF StartsWith(Bytes(line), prefix) THEN next
    ELSE Continue(ph, Append(lns, line))

\* the command completes at its terminator, urc_prefix or not
HandleCommandLineCompletesAtOk(o, ph, lns, line) ==
    ReadResponseLines(o.command, lns, line, Done(Ok(lns)))

\* handle_command after the write: read_response_lines, then
\* read_line_until_urc if the request has a urc_prefix
HandleCommandLine(o, ph, lns, line) ==
    IF ph = "response"
    THEN ReadResponseLines(o.command, lns, line,
             IF o.has_prefix THEN Continue("urc", lns) ELSE Done(Ok(lns)))
    ELSE ReadLineUntilUrc("urc", o.urc_prefix, lns, line,
             Done(Ok(Append(lns, line))))

\* the command line http_read formats
HttpReadCmd(o) == S_HTTPREAD_CMD \o Dec(o.offset) \o <<",">> \o Dec(o.len)

\* the raw read starts at OK, before the start URC
HttpReadLineSkipsStart(o, ph, lns, line) ==
    IF ph = "response"
    THEN ReadResponseLines(HttpReadCmd(o), lns, line, Continue("body", <<>>))
    ELSE ReadLineUntilUrc("end_urc", S_HTTPREAD_URC \o <<"0">>, lns, line,
             Done(Ok(<<>>)))

\* http_read after the write, between the raw read
HttpReadLine(o, ph, lns, line) ==
    IF ph = "response"
    THEN ReadResponseLines(HttpReadCmd(o), lns, line, Continue("start_urc", <<>>))
    ELSE IF ph = "start_urc"
    THEN ReadLineUntilUrc("start_urc", S_HTTPREAD_URC \o Dec(o.len), lns, line,
             Continue(IF o.len = 0 THEN "end_urc" ELSE "body", Append(lns, line)))
    ELSE ReadLineUntilUrc("end_urc", S_HTTPREAD_URC \o <<"0">>, lns, line,
             Done(Ok(<<>>)))

\* the command line http_write formats
HttpDataCmd(o) == S_HTTPDATA_CMD \o Dec(o.len) \o <<",", "6", "0">>

\* http_write after the write of the command, around the write of the body
HttpWriteLine(o, ph, lns, line) ==
    IF ph = "response"
    THEN ReadResponseLines(HttpDataCmd(o), lns, line, Continue("write_body", <<>>))
    ELSE ReadResponseLines(<<>>, lns, line, Done(Ok(<<>>)))

OnLine(o, ph, lns, line) ==
    IF o.kind = "command" THEN HandleCommandLine(o, ph, lns, line)
    ELSE IF o.kind = "http_read" THEN HttpReadLine(o, ph, lns, line)
    ELSE HttpWriteLine(o, ph, lns, line)

CommandText(o) ==
    IF o.kind = "command" THEN o.command
    ELSE IF o.kind = "http_read" THEN HttpReadCmd(o)
    ELSE HttpDataCmd(o)

ReadPhases == {"response", "urc", "start_urc", "end_urc", "confirm"}

----------------------------------------------------------------------------
(* The modem.  It answers the commands it received in order, possibly      *)
(* late and possibly leaving earlier ones unanswered, and sends            *)
(* unsolicited lines.  The next chunk arrives once the previous one was    *)
(* read: arrival times only matter to a pending reader.                    *)

Crlf(s) == s \o <<CR, LF>>

S_CSQ == <<"A", "T", "+", "C", "S", "Q">>
S_DATA == <<"+", "D">>
S_URC == <<"+", "U">>

Line(s, k) == Tagged(Crlf(s), k, FALSE)

Burst(s, k, n) == [i \in 1..(n * (Len(s) + 2)) |-> Line(s, k)[((i - 1) % (Len(s) + 2)) + 1]]

BodyPattern == <<"K", LF, "O", CR>>

BodyBytes(n) == [i \in 1..n |-> BodyPattern[((i - 1) % 4) + 1]]

Choice(chunk, next) == [chunk |-> chunk, next |-> next]

\* what the modem may send next for the command e = [k, o, m] it is answering
ModemChoices(e) ==
    IF e.o.kind = "command" /\ e.o.command = S_AT THEN
        { Choice(Line(S_OK, e.k), "pop"),
          Choice(Line(S_ERROR, e.k), "pop"),
          Choice(Burst(S_DATA, e.k, MAX_RESPONSE_LINES + 1), "reply") }
    ELSE IF e.o.kind = "command" /\ ~e.o.has_prefix THEN
        { Choice(Line(S_OK, e.k), "pop"),
          Choice(Line(S_ERROR, e.k), "pop"),
          Choice(Line(S_DOWNLOAD, e.k), "pop"),
          Choice(Line(e.o.command, e.k), "more"),
          Choice(Line(S_DATA, e.k), "more") }
        \cup (IF e.m = "reply" THEN {Choice(Line(<<INVALID>>, e.k), "more")} ELSE {})
    ELSE IF e.o.kind = "command" THEN
        IF e.m = "reply" THEN
            { Choice(Line(S_OK, e.k), "urc"),
              Choice(Line(S_ERROR, e.k), "pop"),
              Choice(Line(e.o.urc_prefix \o <<"1">>, e.k), "reply"),
              Choice(Line(S_DATA, e.k), "reply") }
        ELSE
            { Choice(Line(e.o.urc_prefix \o <<"2">>, e.k), "pop"),
              Choice(Line(S_DATA, e.k), "urc") }
    ELSE IF e.o.kind = "http_write" THEN
        IF e.m = "reply" THEN
            { Choice(Line(S_DOWNLOAD, e.k), "data"),
              Choice(Line(S_ERROR, e.k), "pop"),
              Choice(Line(S_DATA, e.k), "reply") }
        ELSE IF e.m = "data" THEN
            { Choice(Line(S_ERROR, e.k), "pop") }
        ELSE
            { Choice(Line(S_OK, e.k), "pop"),
              Choice(Line(S_ERROR, e.k), "pop") }
    ELSE
        IF e.m = "reply" THEN
            { Choice(Line(S_OK, e.k), "start"),
              Choice(Line(S_ERROR, e.k), "pop"),
              Choice(Line(S_DATA, e.k), "reply") }
        ELSE IF e.m = "start" THEN
            { Choice(Line(S_HTTPREAD_URC \o Dec(e.o.len), e.k)
                       \o Tagged(BodyBytes(e.o.len), e.k, TRUE), "end"),
              \* the modem stops before the last byte of the body
              Choice(Line(S_HTTPREAD_URC \o Dec(e.o.len), e.k)
                       \o Tagged(BodyBytes(e.o.len - 1), e.k, TRUE), "pop"),
              Choice(Line(S_DATA, e.k), "start") }
        ELSE
            { Choice(Line(S_HTTPREAD_URC \o <<"0">>, e.k), "pop"),
              Choice(Line(S_DATA, e.k), "end") }

ModemSendUpTo(max) ==
    /\ running = "none"
    /\ stream = <<>>
    /\ sent < max
    /\ \E i \in 1..Len(modem_todo) :
        \E c \in ModemChoices(modem_todo[i]) :
            /\ stream' = c.chunk
            /\ modem_todo' = (IF c.next = "pop" THEN <<>>
                              ELSE <<[modem_todo[i] EXCEPT !.m = c.next]>>)
                             \o SubSeq(modem_todo, i + 1, Len(modem_todo))
    /\ sent' = sent + 1
    /\ UNCHANGED <<extVars, runnerVars, chanVars, mutex, line_buffer, have_cr, opVars,
                   writeVars, leaseVars, urc_log, running>>

ModemSend == ModemSendUpTo(MaxChunks)

\* an unsolicited result code
ModemUrc ==
    /\ running = "none"
    /\ stream = <<>>
    /\ sent < MaxChunks
    /\ stream' = Line(S_URC, 0)
    /\ sent' = sent + 1
    /\ UNCHANGED <<extVars, runnerVars, chanVars, mutex, line_buffer, have_cr, opVars,
                   writeVars, modem_todo, leaseVars, urc_log, running>>

----------------------------------------------------------------------------
(* The controller mutex (embassy_sync Mutex locked by LoggingMutexGuard)   *)

TryLockAlways(m) == TRUE

\* Mutex::lock completes when the mutex is not held
TryLock(m) == m = "free"

----------------------------------------------------------------------------
(* The closure: AtController::handle_command / handle_http_read            *)

WriteEv == [ev |-> "write", data |-> <<>>]
LineEv(line) == [ev |-> "line", data |-> line]
RawEv(c) == [ev |-> "raw", data |-> <<c>>]
FramedBodyEv(c) == [ev |-> "framed_body", data |-> <<c>>]

\* stream.write_all(command), stream.write_all("\r\n")
ClosureWrite ==
    /\ running \in {"none", "client"}
    /\ cpc = "closure"
    /\ phase = "write"
    /\ ncmd' = ncmd + 1
    /\ last_written' = CommandText(op)
    /\ modem_todo' = Append(modem_todo, [k |-> ncmd + 1, o |-> op, m |-> "reply"])
    /\ phase' = "response"
    /\ lines' = <<>>
    /\ have_cr' = FALSE
    /\ events' = Append(events, WriteEv)
    /\ steps' = Append(steps, "closure")
    /\ running' = "client"
    /\ UNCHANGED <<extVars, runnerVars, chanVars, mutex, stream, line_buffer, op, buf,
                   response, sent, cpc, ret, calls, cancels, urc_log>>

\* write_all fails (phase write) or read_exact fails (phase body)
ClosureIoError ==
    /\ running \in {"none", "client"}
    /\ cpc = "closure"
    /\ phase \in {"write", "body", "write_body"}
    /\ response' = Err("Error")
    /\ cpc' = "drop"
    /\ phase' = "none"
    /\ lines' = <<>>
    /\ steps' = IF phase = "write" THEN Append(steps, "closure") ELSE steps
    /\ running' = "client"
    /\ UNCHANGED <<extVars, runnerVars, chanVars, mutex, stream, line_buffer, have_cr,
                   op, buf, events, writeVars, modemVars, ret, calls, cancels,
                   urc_log>>

\* one byte through read_line inside read_response_lines / read_line_until_urc
ClosureReadByte ==
    /\ running \in {"none", "client"}
    /\ cpc = "closure"
    /\ phase \in ReadPhases
    /\ stream # <<>>
    /\ LET c == Head(stream)
           r == ReadLineStep(line_buffer, have_cr, c)
           d == IF r.ret.kind = "line" THEN OnLine(op, phase, lines, r.ret.line)
                ELSE IF r.ret.kind = "err" THEN Done(Err("CapacityError"))
                ELSE Continue(phase, lines)
           ev == (IF c.body THEN <<FramedBodyEv(c)>> ELSE <<>>)
                 \o (IF r.ret.kind = "line" THEN <<LineEv(r.ret.line)>> ELSE <<>>)
       IN  /\ stream' = Tail(stream)
           /\ line_buffer' = r.lb
           /\ have_cr' = r.hc
           /\ events' = events \o ev
           /\ phase' = d.phase
           /\ lines' = d.lines
           /\ response' = IF d.done THEN d.result ELSE response
           /\ cpc' = IF d.done THEN "drop" ELSE cpc
    /\ running' = "client"
    /\ UNCHANGED <<extVars, runnerVars, chanVars, mutex, op, buf, writeVars, modemVars,
                   ret, steps, calls, cancels, urc_log>>

BodyWriteEv == [ev |-> "write_body", data |-> <<>>]

\* the modem's pending commands after len body bytes were written: the
\* command that prompted for them has its data
ModemGotBody(todo, k) ==
    [i \in 1..Len(todo) |->
        IF todo[i].k = k /\ todo[i].m = "data"
        THEN [todo[i] EXCEPT !.m = "got"] ELSE todo[i]]

\* http_write: stream.write_all(buf)
ClosureWriteBody ==
    /\ running \in {"none", "client"}
    /\ cpc = "closure"
    /\ phase = "write_body"
    /\ phase' = "confirm"
    /\ lines' = <<>>
    /\ events' = Append(events, BodyWriteEv)
    /\ modem_todo' = ModemGotBody(modem_todo, ncmd)
    /\ have_cr' = FALSE
    /\ running' = "client"
    /\ UNCHANGED <<extVars, runnerVars, chanVars, mutex, stream, line_buffer, op, buf,
                   response, writeVars, sent, leaseVars, urc_log>>

\* one byte through stream.read_exact(buf)
ClosureReadExact ==
    /\ running \in {"none", "client"}
    /\ cpc = "closure"
    /\ phase = "body"
    /\ stream # <<>>
    /\ stream' = Tail(stream)
    /\ buf' = Append(buf, Head(stream))
    /\ events' = Append(events, RawEv(Head(stream)))
    /\ phase' = IF Len(buf) + 1 = op.len THEN "end_urc" ELSE "body"
    /\ have_cr' = FALSE
    /\ running' = "client"
    /\ UNCHANGED <<extVars, runnerVars, chanVars, mutex, line_buffer, op, lines,
                   response, writeVars, modemVars, leaseVars, urc_log>>

\* with_timeout around a read loop: the timer fires while the read is pending
ClosureTimeout ==
    /\ running = "none"
    /\ cpc = "closure"
    /\ phase \in ReadPhases
    /\ stream = <<>>
    /\ response' = Err("Timeout")
    /\ cpc' = "drop"
    /\ phase' = "none"
    /\ lines' = <<>>
    /\ have_cr' = FALSE
    /\ running' = "client"
    /\ UNCHANGED <<extVars, runnerVars, chanVars, mutex, stream, line_buffer, op, buf,
                   events, writeVars, modemVars, ret, steps, calls, cancels,
                   urc_log>>

----------------------------------------------------------------------------
(* AtClientImpl::use_controller *)

ClientBlocked ==
    \/ cpc = "idle"
    \/ cpc \in {"send_acquire", "send_release"} /\ Len(tx_channel) >= CHANNEL_SIZE
    \/ cpc \in {"recv_acquire", "recv_release"} /\ rx_channel = <<>>
    \/ cpc = "lock" /\ ~TryLock(mutex)
    \/ cpc = "closure" /\ phase \in ReadPhases \cup {"body"} /\ stream = <<>>

\* the caller enters use_controller with a closure executing request o
Call(o) ==
    /\ running \in {"none", "client"}
    /\ cpc = "idle"
    /\ calls < MaxCalls
    /\ cpc' = "send_acquire"
    /\ op' = o
    /\ phase' = "none"
    /\ lines' = <<>>
    /\ buf' = <<>>
    /\ response' = NoResult
    /\ events' = <<>>
    /\ steps' = <<>>
    /\ calls' = calls + 1
    /\ running' = "client"
    /\ UNCHANGED <<extVars, runnerVars, chanVars, mutex, stream, line_buffer, have_cr,
                   writeVars, modemVars, ret, cancels, urc_log>>

\* self.tx.send(AcquireAtController).await
ClientSendAcquire ==
    /\ running \in {"none", "client"}
    /\ cpc = "send_acquire"
    /\ Len(tx_channel) < CHANNEL_SIZE
    /\ tx_channel' = Append(tx_channel, "AcquireAtController")
    /\ cpc' = "recv_acquire"
    /\ steps' = Append(steps, "send_acquire")
    /\ running' = "client"
    /\ UNCHANGED <<extVars, runnerVars, rx_channel, mutex, stream, line_buffer, have_cr,
                   opVars, writeVars, modemVars, ret, calls, cancels, urc_log>>

\* let _ = self.rx.receive().await
ClientRecvAcquire ==
    /\ running \in {"none", "client"}
    /\ cpc = "recv_acquire"
    /\ rx_channel # <<>>
    /\ rx_channel' = Tail(rx_channel)
    /\ cpc' = "lock"
    /\ steps' = Append(steps, "recv_ok")
    /\ running' = "client"
    /\ UNCHANGED <<extVars, runnerVars, tx_channel, mutex, stream, line_buffer, have_cr,
                   opVars, writeVars, modemVars, ret, calls, cancels, urc_log>>

\* let mut ctr = self.at_controller.inner("at_rx").await
ClientLock ==
    /\ running \in {"none", "client"}
    /\ cpc = "lock"
    /\ TryLock(mutex)
    /\ mutex' = "client"
    /\ cpc' = "closure"
    /\ phase' = "write"
    /\ steps' = Append(steps, "lock")
    /\ running' = "client"
    /\ UNCHANGED <<extVars, runnerVars, chanVars, stream, line_buffer, have_cr, op,
                   lines, buf, response, events, writeVars, modemVars, ret,
                   calls, cancels, urc_log>>

\* drop(ctr) is missing: the guard lives to the end of use_controller
ClientDropMissing ==
    /\ running \in {"none", "client"}
    /\ cpc = "drop"
    /\ cpc' = "send_release"
    /\ running' = "client"
    /\ UNCHANGED <<extVars, runnerVars, chanVars, mutex, stream, line_buffer, have_cr,
                   opVars, writeVars, modemVars, ret, steps, calls, cancels,
                   urc_log>>

\* an error of the closure returns early, without the release handshake
ClientDropErrorReturns ==
    /\ running \in {"none", "client"}
    /\ cpc = "drop"
    /\ mutex' = "free"
    /\ cpc' = IF response.ok THEN "send_release" ELSE "idle"
    /\ ret' = IF response.ok THEN ret ELSE response
    /\ steps' = Append(steps, "unlock")
    /\ running' = "client"
    /\ UNCHANGED <<extVars, runnerVars, chanVars, stream, line_buffer, have_cr, opVars,
                   writeVars, modemVars, calls, cancels, urc_log>>

\* drop(ctr)
ClientDrop ==
    /\ running \in {"none", "client"}
    /\ cpc = "drop"
    /\ mutex' = "free"
    /\ cpc' = "send_release"
    /\ steps' = Append(steps, "unlock")
    /\ running' = "client"
    /\ UNCHANGED <<extVars, runnerVars, chanVars, stream, line_buffer, have_cr, opVars,
                   writeVars, modemVars, ret, calls, cancels, urc_log>>

\* self.tx.send(ReleaseAtController).await
ClientSendRelease ==
    /\ running \in {"none", "client"}
    /\ cpc = "send_release"
    /\ Len(tx_channel) < CHANNEL_SIZE
    /\ tx_channel' = Append(tx_channel, "ReleaseAtController")
    /\ cpc' = "recv_release"
    /\ steps' = Append(steps, "send_release")
    /\ running' = "client"
    /\ UNCHANGED <<extVars, runnerVars, rx_channel, mutex, stream, line_buffer, have_cr,
                   opVars, writeVars, modemVars, ret, calls, cancels, urc_log>>

\* let _ = self.rx.receive().await; response
ClientRecvRelease ==
    /\ running \in {"none", "client"}
    /\ cpc = "recv_release"
    /\ rx_channel # <<>>
    /\ rx_channel' = Tail(rx_channel)
    /\ cpc' = "idle"
    /\ ret' = response
    /\ steps' = Append(steps, "recv_ok")
    /\ running' = "client"
    /\ UNCHANGED <<extVars, runnerVars, tx_channel, mutex, stream, line_buffer, have_cr,
                   opVars, writeVars, modemVars, calls, cancels, urc_log>>

\* the dropped future leaks its guard
CancelKeepsLock ==
    /\ running = "none"
    /\ cpc # "idle"
    /\ ClientBlocked
    /\ cancels < MaxCancels
    /\ cpc' = "idle"
    /\ phase' = "none"
    /\ lines' = <<>>
    /\ steps' = Append(steps, "dropped")
    /\ cancels' = cancels + 1
    /\ UNCHANGED <<extVars, runnerVars, chanVars, mutex, stream, line_buffer, have_cr,
                   op, buf, response, events, writeVars, modemVars, ret, calls,
                   urc_log, running>>

\* the use_controller future is dropped by the timeout ensure_at races
\* against its AT loop: the timer is polled after the pending future
Cancel ==
    /\ running = "none"
    /\ cpc # "idle"
    /\ ClientBlocked
    /\ cancels < MaxCancels
    /\ cpc' = "idle"
    /\ mutex' = IF mutex = "client" THEN "free" ELSE mutex
    /\ phase' = "none"
    /\ lines' = <<>>
    /\ have_cr' = IF mutex = "client" THEN FALSE ELSE have_cr
    /\ steps' = Append(steps, "dropped")
    /\ cancels' = cancels + 1
    /\ UNCHANGED <<extVars, runnerVars, chanVars, stream, line_buffer, op, buf,
                   response, events, writeVars, modemVars, ret, calls, urc_log,
                   running>>

\* the client task returns Poll::Pending
ClientYield ==
    /\ running = "client"
    /\ ClientBlocked
    /\ running' = "none"
    /\ UNCHANGED <<extVars, runnerVars, chanVars, mutex, stream, line_buffer, have_cr,
                   opVars, writeVars, modemVars, leaseVars, urc_log>>

----------------------------------------------------------------------------
(* Runner::run *)

RunnerBlocked ==
    \/ rpc = "lock" /\ ~TryLock(mutex)
    \/ rpc = "select" /\ tx_channel = <<>> /\ stream = <<>>
    \/ rpc = "send" /\ Len(rx_channel) >= CHANNEL_SIZE
    \/ rpc = "receive" /\ tx_channel = <<>>

\* the await the loop reaches next in runner state st
LoopTop(st) == IF st = "UrcPoll" THEN "lock" ELSE "receive"

\* UrcPoll: let mut ctr = self.at_controller.inner("urc_poll").await
RunnerLock ==
    /\ running \in {"none", "runner"}
    /\ rpc = "lock"
    /\ TryLock(mutex)
    /\ mutex' = "runner"
    /\ rpc' = "select"
    /\ have_cr' = FALSE
    /\ running' = "runner"
    /\ UNCHANGED <<extVars, state, chanVars, stream, line_buffer, opVars, writeVars,
                   modemVars, leaseVars, urc_log>>

\* the runner answers Acquire without leaving UrcPoll
OnRequestUrcPollStays(st, msg) == st

\* the runner's state after request msg was received in state st
OnRequestUrcPoll(st, msg) == IF msg = "AcquireAtController" THEN "AtControllerAcquired" ELSE st

OnRequestAcquired(st, msg) == IF msg = "ReleaseAtController" THEN "UrcPoll" ELSE st

\* ctr is not scoped to the select: the guard is held across the reply
RunnerSelectRequestKeepsLock ==
    /\ running \in {"none", "runner"}
    /\ rpc = "select"
    /\ tx_channel # <<>>
    /\ tx_channel' = Tail(tx_channel)
    /\ have_cr' = FALSE
    /\ state' = OnRequestUrcPoll(state, Head(tx_channel))
    /\ rpc' = "send"
    /\ running' = "runner"
    /\ UNCHANGED <<extVars, rx_channel, mutex, stream, line_buffer, opVars, writeVars,
                   modemVars, leaseVars, urc_log>>

\* the line poll_urc was reading is lost when the select drops its future
RunnerSelectRequestDropsLine ==
    /\ running \in {"none", "runner"}
    /\ rpc = "select"
    /\ tx_channel # <<>>
    /\ tx_channel' = Tail(tx_channel)
    /\ mutex' = "free"
    /\ have_cr' = FALSE
    /\ line_buffer' = <<>>
    /\ state' = OnRequestUrcPoll(state, Head(tx_channel))
    /\ rpc' = "send"
    /\ running' = "runner"
    /\ UNCHANGED <<extVars, rx_channel, stream, opVars, writeVars,
                   modemVars, leaseVars, urc_log>>

\* UrcPoll: select completes with Either::First(request); ctr is dropped
RunnerSelectRequest ==
    /\ running \in {"none", "runner"}
    /\ rpc = "select"
    /\ tx_channel # <<>>
    /\ tx_channel' = Tail(tx_channel)
    /\ mutex' = "free"
    /\ have_cr' = FALSE
    /\ state' = OnRequestUrcPoll(state, Head(tx_channel))
    /\ rpc' = "send"
    /\ running' = "runner"
    /\ UNCHANGED <<extVars, rx_channel, stream, line_buffer, opVars, writeVars,
                   modemVars, leaseVars, urc_log>>

\* UrcPoll: one byte through poll_urc; a complete line ends the select with
\* Either::Second(urc), handle_urc logs it and ctr is dropped
RunnerPollUrc ==
    /\ running \in {"none", "runner"}
    /\ rpc = "select"
    /\ tx_channel = <<>>
    /\ stream # <<>>
    /\ LET r == ReadLineStep(line_buffer, have_cr, Head(stream))
       IN  /\ stream' = Tail(stream)
           /\ line_buffer' = r.lb
           /\ have_cr' = r.hc
           /\ IF r.ret.kind = "line"
              THEN /\ urc_log' = Append(urc_log, r.ret.line)
                   /\ mutex' = "free"
                   /\ rpc' = "lock"
              ELSE UNCHANGED <<extVars, urc_log, mutex, rpc>>
    /\ running' = "runner"
    /\ UNCHANGED <<extVars, state, chanVars, opVars, writeVars, modemVars, leaseVars>>

\* self.sender.send(Ok(AtResponseMessage::Ok)).await
RunnerSend ==
    /\ running \in {"none", "runner"}
    /\ rpc = "send"
    /\ Len(rx_channel) < CHANNEL_SIZE
    /\ rx_channel' = Append(rx_channel, "Ok")
    /\ rpc' = LoopTop(state)
    /\ running' = "runner"
    /\ UNCHANGED <<extVars, state, tx_channel, mutex, stream, line_buffer, have_cr,
                   opVars, writeVars, modemVars, leaseVars, urc_log>>

\* AtControllerAcquired: let next = self.receiver.receive().await
RunnerReceive ==
    /\ running \in {"none", "runner"}
    /\ rpc = "receive"
    /\ tx_channel # <<>>
    /\ tx_channel' = Tail(tx_channel)
    /\ state' = OnRequestAcquired(state, Head(tx_channel))
    /\ rpc' = "send"
    /\ running' = "runner"
    /\ UNCHANGED <<extVars, rx_channel, mutex, stream, line_buffer, have_cr, opVars,
                   writeVars, modemVars, leaseVars, urc_log>>

\* the runner task returns Poll::Pending
RunnerYield ==
    /\ running = "runner"
    /\ RunnerBlocked
    /\ running' = "none"
    /\ UNCHANGED <<extVars, runnerVars, chanVars, mutex, stream, line_buffer, have_cr,
                   opVars, writeVars, modemVars, leaseVars, urc_log>>

----------------------------------------------------------------------------
(* The runner and one client on the modem's stream *)

NoRead == [buf |-> 0, pos |-> 0, len |-> 0, issued |-> FALSE]

NoReadToEnd == [active |-> FALSE, buf |-> 0, left |-> 0, total |-> 0, pos |-> 0]

NoValue == [ok |-> FALSE, n |-> 0, set |-> FALSE]

BodyInit ==
    /\ response_body = [len |-> 0, pos |-> 0]
    /\ bpc = "none"
    /\ rd = NoRead
    /\ rd_ret = NoValue
    /\ rte = NoReadToEnd
    /\ rte_ret = NoValue
    /\ requests = <<>>
    /\ returned = 0
    /\ nreads = 0

CloudInit ==
    /\ cloud_state = "Startup"
    /\ cloud_pc = "once"
    /\ cloud_job = "none"
    /\ http_initialized = FALSE
    /\ time_synced = FALSE
    /\ upload_channel = <<>>
    /\ modem_up = TRUE
    /\ last_cmd = "none"
    /\ init_ok = FALSE
    /\ inits = 0
    /\ once_state = "Startup"
    /\ handler_log = <<>>
    /\ uploads_sent = 0

PipeInit ==
    /\ avg_channel = <<>>
    /\ ve_pc = "read"
    /\ average = 0
    /\ mon_pc = "receive"
    /\ upload = <<>>
    /\ mon_held = <<>>
    /\ readings_made = 0
    /\ taken = <<>>
    /\ encoded = <<>>
    /\ delivered = <<>>
    /\ received = <<>>

None == [some |-> FALSE, t |-> 0]

Some(t) == [some |-> TRUE, t |-> t]

NoUpload == [some |-> FALSE, start_timestamp |-> 0, entries |-> <<>>]

NoCall == [reading |-> 0, now |-> None, before |-> NoUpload, ret |-> NoUpload]

MonInit ==
    /\ instant = 0
    /\ system_boot_time = None
    /\ cur_upload = NoUpload
    /\ uploads_emitted = 0
    /\ accepted = 0
    /\ hr = NoCall
    /\ last_sync = [t |-> 0, m |-> 0, same |-> FALSE]
    /\ nreadings = 0
    /\ nsyncs = 0

NoReading == [some |-> FALSE]

NoReturn == [kind |-> "none", prev |-> "none", frame |-> <<>>,
             reading |-> NoReading]

\* FrameHandler::new
VeInit ==
    /\ fh = [pc |-> "scan", checksum |-> 0, label_buffer |-> <<>>,
             value_buffer |-> <<>>, label |-> <<>>, messages |-> <<>>]
    /\ frame = <<>>
    /\ ve_out = NoReturn
    /\ ve_fed = 0

\* Reading::default()
ZeroReading ==
    [battery_voltage |-> 0, battery_current |-> 0, panel_voltage |-> 0,
     panel_power |-> 0, load_current |-> 0]

\* Averaging::default()
NoAveraging == [sum |-> ZeroReading, count |-> 0]

NoAverage == [some |-> FALSE, reading |-> ZeroReading, count |-> 0]

\* ve_direct::new
AvgInit ==
    /\ averaging = NoAveraging
    /\ apc = "new"
    /\ ve_clock = 0
    /\ ve_end = 0
    /\ collected = <<>>
    /\ avg_call = [op |-> "none", prev |-> "none", before |-> NoAveraging,
                   ret |-> NoAverage, inputs |-> <<>>]
    /\ avg_calls = 0
    /\ avg_sent = [some |-> FALSE, reading |-> ZeroReading, count |-> 0,
                   at |-> 0, prev_at |-> 0, n |-> 0]
    /\ read_at = 0
    /\ n_validated = 0
    /\ n_averaged = 0

AtInit ==
    /\ state = "UrcPoll"
    /\ rpc = "lock"
    /\ tx_channel = <<>>
    /\ rx_channel = <<>>
    /\ mutex = "free"
    /\ stream = <<>>
    /\ line_buffer = <<>>
    /\ have_cr = FALSE
    /\ cpc = "idle"
    /\ op = NoOp
    /\ phase = "none"
    /\ lines = <<>>
    /\ buf = <<>>
    /\ response = NoResult
    /\ ret = NoResult
    /\ ncmd = 0
    /\ last_written = <<>>
    /\ modem_todo = <<>>
    /\ sent = 0
    /\ steps = <<>>
    /\ events = <<>>
    /\ urc_log = <<>>
    /\ calls = 0
    /\ cancels = 0
    /\ running = "none"

\* no +CCLK reply has been parsed
NoRtcLine ==
    [year |-> 0, month |-> 1, day |-> 1, hour |-> 0, min |-> 0, sec |-> 0,
     sign |-> "+", tz |-> 0]

NoRtcParse == [kind |-> "none", year |-> 0, month |-> 0, day |-> 0, secs |-> 0]

RtcInit ==
    /\ rtc_line = NoRtcLine
    /\ rtc_parsed = NoRtcParse

Init ==
    /\ AtInit
    /\ BodyInit
    /\ CloudInit
    /\ PipeInit
    /\ MonInit
    /\ VeInit
    /\ AvgInit
    /\ RtcInit

\* at(): the request ensure_at and is_alive send
LeaseOps == {AtCommandRequest(S_AT)}

ClientNext ==
    \/ ClientSendAcquire
    \/ ClientRecvAcquire
    \/ ClientLock
    \/ ClosureWrite
    \/ ClosureIoError
    \/ ClosureReadByte
    \/ ClosureTimeout
    \/ ClientDrop
    \/ ClientSendRelease
    \/ ClientRecvRelease
    \/ ClientYield

RunnerNext ==
    \/ RunnerLock
    \/ RunnerSelectRequest
    \/ RunnerPollUrc
    \/ RunnerSend
    \/ RunnerReceive
    \/ RunnerYield

ModemNext ==
    \/ ModemSend
    \/ ModemUrc

Next ==
    \/ \E o \in LeaseOps : Call(o)
    \/ ClientNext
    \/ Cancel
    \/ RunnerNext
    \/ ModemNext

Spec == Init /\ [][Next]_vars

----------------------------------------------------------------------------
(* The controller alone: the AtController operations called on a locked    *)
(* controller, one after another, on the modem's stream                    *)

CtrOps ==
    {AtCommandRequest(S_CSQ),
     WithUrcPrefix(AtCommandRequest(S_HTTPACTION_CMD), S_HTTPACTION_URC)}
    \cup {HttpReadRequest(n, 10 * (n - 1)) : n \in 1..MaxLen}

\* ctr.handle_command(&req) / ctr.handle_http_read(buf, offset) is called
CtrCall(o) ==
    /\ running \in {"none", "client"}
    /\ cpc = "idle"
    /\ calls < MaxCtrCalls
    /\ cpc' = "closure"
    /\ op' = o
    /\ phase' = "write"
    /\ lines' = <<>>
    /\ buf' = <<>>
    /\ response' = NoResult
    /\ events' = <<>>
    /\ steps' = <<>>
    /\ calls' = calls + 1
    /\ running' = "client"
    /\ UNCHANGED <<extVars, runnerVars, chanVars, mutex, stream, line_buffer, have_cr,
                   writeVars, modemVars, ret, cancels, urc_log>>

\* the operation returns its result
CtrReturn ==
    /\ running \in {"none", "client"}
    /\ cpc = "drop"
    /\ cpc' = "idle"
    /\ ret' = response
    /\ running' = "client"
    /\ UNCHANGED <<extVars, runnerVars, chanVars, mutex, stream, line_buffer, have_cr,
                   opVars, writeVars, modemVars, steps, calls, cancels, urc_log>>

CtrModemSend == ModemSendUpTo(MaxCtrChunks)

NextCtr ==
    \/ \E o \in CtrOps : CtrCall(o)
    \/ ClosureWrite
    \/ ClosureIoError
    \/ ClosureReadByte
    \/ ClosureReadExact
    \/ ClosureTimeout
    \/ CtrReturn
    \/ ClientYield
    \/ CtrModemSend

SpecCtr == Init /\ [][NextCtr]_vars

----------------------------------------------------------------------------
(* handle_http_write on a controller an earlier command was executed on *)

WrOps == {AtCommandRequest(S_CSQ), HttpWriteRequest(1)}

\* ctr.handle_command(&req) / ctr.handle_http_write(buf) is called
WrCall(o) ==
    /\ running \in {"none", "client"}
    /\ cpc = "idle"
    /\ calls < MaxWrCalls
    /\ cpc' = "closure"
    /\ op' = o
    /\ phase' = "write"
    /\ lines' = <<>>
    /\ buf' = <<>>
    /\ response' = NoResult
    /\ events' = <<>>
    /\ steps' = <<>>
    /\ calls' = calls + 1
    /\ running' = "client"
    /\ UNCHANGED <<extVars, runnerVars, chanVars, mutex, stream, line_buffer, have_cr,
                   writeVars, modemVars, ret, cancels, urc_log>>

WrModemSend == ModemSendUpTo(MaxWrChunks)

NextWr ==
    \/ \E o \in WrOps : WrCall(o)
    \/ ClosureWrite
    \/ ClosureIoError
    \/ ClosureReadByte
    \/ ClosureWriteBody
    \/ ClosureTimeout
    \/ CtrReturn
    \/ ClientYield
    \/ WrModemSend

SpecWr == Init /\ [][NextWr]_vars

\* the scheduling of the executor: a task that can run is polled, and a
\* timer that was started fires
Fairness == WF_vars(RunnerNext) /\ WF_vars(ClientNext)

LiveSpec == Init /\ [][Next]_vars /\ Fairness

----------------------------------------------------------------------------
(* The lease *)

LeaseOrder == <<"send_acquire", "recv_ok", "lock", "closure", "unlock",
                "send_release", "recv_ok">>

IsPrefix(s, t) == Len(s) <= Len(t) /\ SubSeq(t, 1, Len(s)) = s

Dropped == steps # <<>> /\ steps[Len(steps)] = "dropped"

\* the steps of the call, without the mark of a dropped future
StepsDone == IF Dropped THEN SubSeq(steps, 1, Len(steps) - 1) ELSE steps

\* the last use_controller call returned to its caller
Returned == cpc = "idle" /\ calls > 0 /\ ~Dropped

HoldsController == cpc \in {"closure", "drop"}

\* C1: the runner's poll_urc and a client closure never hold the controller
\* at the same time: the runner reads only in its select, holding the
\* mutex, the client only inside its closure, holding the mutex.
C1_ExclusiveReader ==
    /\ ~(rpc = "select" /\ HoldsController)
    /\ (mutex = "runner") = (rpc = "select")
    /\ (mutex = "client") = HoldsController

C1_Witness ==
    /\ cpc = "closure"
    /\ phase = "response"
    /\ line_buffer # <<>>
    /\ urc_log # <<>>

\* C2: the steps of a use_controller call are a prefix of: send Acquire,
\* receive Ok, lock, closure, unlock, send Release, receive Ok; the call
\* returns only after all seven; the closure runs only after the Ok to
\* Acquire was received; Release is sent only after the mutex was unlocked.
C2_LeaseOrder ==
    /\ IsPrefix(StepsDone, LeaseOrder)
    /\ Returned => steps = LeaseOrder
    /\ HoldsController => SubSeq(steps, 1, 3) = SubSeq(LeaseOrder, 1, 3)
    /\ cpc = "recv_release" => mutex # "client" /\ Len(steps) = 6
    /\ cpc = "send_release" => mutex # "client"

C2_Witness ==
    /\ Returned
    /\ steps = LeaseOrder
    /\ ret.ok

\* C3: with no lease future dropped so far, while the client waits for the
\* lock, runs its closure or has not sent Release yet, the runner is in
\* AtControllerAcquired waiting on the control channel: it does not hold
\* the mutex and does not poll URCs.
C3_RunnerSuspended ==
    (cancels = 0 /\ cpc \in {"lock", "closure", "drop", "send_release"})
        => /\ state = "AtControllerAcquired"
           /\ rpc = "receive"
           /\ mutex # "runner"

C3_Witness ==
    /\ cancels = 0
    /\ cpc = "closure"
    /\ \E i \in 1..Len(events) : events[i].ev = "line" /\ Tags(events[i].data) = {0}

\* C4: with fair scheduling and no future dropped, every use_controller
\* call returns, with the runner back in UrcPoll.
C4_LeaseTerminates ==
    (cancels = 0 /\ cpc # "idle")
        ~> (cancels > 0 \/ (Returned /\ steps = LeaseOrder /\ state = "UrcPoll"))

C4_Witness ==
    /\ Returned
    /\ cancels = 0
    /\ sent = 0
    /\ state = "UrcPoll"
    /\ rpc = "select"

\* C5: a dropped use_controller future leaves the mutex unlocked, the call
\* that follows it returns unless it is dropped too, and after it returned
\* the runner comes back to UrcPoll.
C5_CleanAfterDrop ==
    /\ [](cpc = "idle" => mutex # "client")
    /\ \A n \in 1..MaxCancels :
         (cancels = n /\ cpc # "idle") ~> (cancels > n \/ (Returned /\ steps = LeaseOrder))
    /\ (cancels > 0 /\ Returned) ~> (state = "UrcPoll")

C5_Witness ==
    /\ cancels > 0
    /\ Returned
    /\ steps = LeaseOrder
    /\ state = "UrcPoll"
    /\ rpc = "select"

\* C6: a call whose closure returned an error still unlocks, sends Release
\* and receives Ok before it returns, returns the closure's error, and
\* (no future dropped) leaves the runner in UrcPoll.
C6_ErrorReleases ==
    /\ (Returned /\ ~response.ok)
          => /\ steps = LeaseOrder
             /\ ret = response
             /\ ret.err \in {"Error", "Timeout", "CapacityError"}
             /\ mutex # "client"
             /\ (cancels = 0 => state = "UrcPoll")
    /\ (cpc = "idle" /\ ~ret.ok /\ ret.err # "none") => ~HoldsController

C6_Witness ==
    /\ Returned
    /\ ret.err = "CapacityError"
    /\ state = "UrcPoll"

\* the numbers of the commands whose reply lines the operation read
LineTags == UNION {Tags(events[i].data) : i \in {j \in 1..Len(events) : events[j].ev = "line"}}

\* C7: the result of the k-th command is built only from lines the modem
\* sent in reply to the k-th command (or unsolicited): never from a line
\* that answers an earlier command.
C7_ResponsesInOrder ==
    (cpc = "drop" /\ response.err # "Timeout")
        => \A j \in LineTags : j = 0 \/ j = ncmd

----------------------------------------------------------------------------
(* The controller operations, in terms of what the operation read *)

IsLineEv(e) == e.ev = "line"

\* the lines read_line returned since the command was written
ReadLines ==
    LET le == SelectSeq(events, IsLineEv)
    IN  [i \in 1..Len(le) |-> Bytes(le[i].data)]

Text(lns) == [i \in 1..Len(lns) |-> Bytes(lns[i])]

FirstIn(S) == IF S = {} THEN 0 ELSE CHOOSE i \in S : \A j \in S : i <= j

IsTerminator(l) == l \in {S_OK, S_DOWNLOAD, S_ERROR}

\* the index in rl of the first terminator, 0 if there is none
FirstTerm(rl) == FirstIn({i \in 1..Len(rl) : IsTerminator(rl[i])})

\* the index of the first terminator of rl if it is OK or DOWNLOAD, else 0
OkAt(rl) ==
    LET ft == FirstTerm(rl)
    IN  IF ft # 0 /\ rl[ft] # S_ERROR THEN ft ELSE 0

NotEcho(l) == l # CommandText(op)

\* the lines among the first n of rl that are not the echo
Collected(rl, n) == SelectSeq(SubSeq(rl, 1, n), NotEcho)

Written == events # <<>>

\* C8: handle_command without urc_prefix, as a function of the lines read
\* after the write: Ok exactly at the first terminator, when it is OK or
\* DOWNLOAD, holding the earlier non-echo lines in order; Error exactly at
\* the first terminator, when it is ERROR; CapacityError at the fifth
\* non-echo line before any terminator; Timeout only with no terminator
\* read; and while none of these happened it keeps reading.
C8_CommandFunction ==
    (op.kind = "command" /\ ~op.has_prefix /\ Written) =>
        LET rl == ReadLines
            n == Len(rl)
            ft == FirstTerm(rl)
        IN  /\ cpc = "closure" =>
                  /\ phase = "response"
                  /\ ft = 0
                  /\ Text(lines) = Collected(rl, n)
                  /\ Len(lines) <= MAX_RESPONSE_LINES
            /\ cpc = "drop" =>
                  CASE response.ok ->
                           /\ ft = n
                           /\ n > 0
                           /\ rl[n] \in {S_OK, S_DOWNLOAD}
                           /\ Text(response.lines) = Collected(rl, n - 1)
                    [] response.err = "Error" ->
                           /\ ft = n
                           /\ n > 0
                           /\ rl[n] = S_ERROR
                    [] response.err = "CapacityError" ->
                           /\ ft = 0
                           /\ n > 0
                           /\ NotEcho(rl[n])
                           /\ Len(Collected(rl, n)) = MAX_RESPONSE_LINES + 1
                    [] response.err = "Timeout" ->
                           /\ ft = 0
                           /\ Len(Collected(rl, n)) <= MAX_RESPONSE_LINES
                    [] OTHER -> FALSE

C8_Witness ==
    /\ cpc = "drop"
    /\ op.kind = "command"
    /\ ~op.has_prefix
    /\ response.ok
    /\ Len(response.lines) = 2
    /\ \E i \in 1..Len(ReadLines) : ReadLines[i] = op.command

HasPrefix(l) == StartsWith(l, op.urc_prefix)

\* the lines of rl after its OK / DOWNLOAD terminator
AfterOk(rl) == SubSeq(rl, OkAt(rl) + 1, Len(rl))

\* the index in ao of the first line with the urc_prefix, 0 if there is none
PrefixAt(ao) == FirstIn({i \in 1..Len(ao) : HasPrefix(ao[i])})

\* C9 as stated: a command with a urc_prefix does not complete at OK; once
\* a line with the prefix was read after OK the result is Ok with that line
\* last; when it ended without such a line the result is Timeout.
C9_AsStated ==
    (op.kind = "command" /\ op.has_prefix /\ Written /\ OkAt(ReadLines) # 0) =>
        LET ao == AfterOk(ReadLines)
            pa == PrefixAt(ao)
        IN  /\ cpc = "closure" => phase = "urc" /\ pa = 0
            /\ cpc = "drop" =>
                  IF pa # 0
                  THEN /\ response.ok
                       /\ response.lines # <<>>
                       /\ Bytes(response.lines[Len(response.lines)]) = ao[pa]
                  ELSE response.err = "Timeout"

\* C9: a command with a urc_prefix does not complete at OK: it keeps
\* reading; every line read after OK is pushed to the response; the command
\* returns Ok at the first of them that has the prefix, that line being the
\* last of the response; a line that would be the fifth of the response,
\* with the prefix or not, ends it with CapacityError; it ends with Timeout
\* only when no line with the prefix was read.
C9_UrcAfterOk ==
    (op.kind = "command" /\ op.has_prefix /\ Written) =>
        LET rl == ReadLines
            ok == OkAt(rl)
            ao == SubSeq(rl, ok + 1, Len(rl))
            kept == Collected(rl, ok - 1)
            m == Len(ao)
            pa == PrefixAt(ao)
        IN  /\ (cpc = "drop" /\ response.ok) => ok # 0
            /\ (ok # 0 /\ cpc = "closure") =>
                  /\ phase = "urc"
                  /\ pa = 0
                  /\ Text(lines) = kept \o ao
                  /\ Len(lines) <= MAX_RESPONSE_LINES
            /\ (ok # 0 /\ cpc = "drop") =>
                  CASE response.ok ->
                           /\ pa = m
                           /\ m > 0
                           /\ Text(response.lines) = kept \o ao
                           /\ Len(response.lines) <= MAX_RESPONSE_LINES
                    [] response.err = "CapacityError" ->
                           /\ pa \in {0, m}
                           /\ Len(kept) + m = MAX_RESPONSE_LINES + 1
                    [] response.err = "Timeout" ->
                           /\ pa = 0
                           /\ Len(kept) + m <= MAX_RESPONSE_LINES
                    [] OTHER -> FALSE

C9_Witness ==
    /\ cpc = "drop"
    /\ op.kind = "command"
    /\ op.has_prefix
    /\ response.ok
    /\ Len(response.lines) >= 2
    /\ Len(AfterOk(ReadLines)) >= 2
    /\ HasPrefix(Bytes(response.lines[Len(response.lines)]))

\* the line returned when event i happened, empty if it returned none
LineAt(i) == IF events[i].ev = "line" THEN Bytes(events[i].data) ELSE <<>>

IsSuccess(l) == l \in {S_OK, S_DOWNLOAD}

IsStartUrc(l) == StartsWith(l, S_HTTPREAD_URC \o Dec(op.len))

IsEndUrc(l) == StartsWith(l, S_HTTPREAD_URC \o <<"0">>)

\* positions in events: the terminator of the response, the start URC
\* after position ok, the end URC after the raw bytes that follow position st
OkPos == FirstIn({i \in 1..Len(events) : IsSuccess(LineAt(i))})

StartPos(ok) ==
    IF ok = 0 THEN 0
    ELSE FirstIn({i \in (ok + 1)..Len(events) : IsStartUrc(LineAt(i))})

EndPos(st) ==
    IF st = 0 THEN 0
    ELSE FirstIn({i \in (st + op.len + 1)..Len(events) : IsEndUrc(LineAt(i))})

RawIdx == {i \in 1..Len(events) : events[i].ev = "raw"}

\* the numbers of the commands whose bytes the operation consumed
ConsumedTags == UNION {Tags(events[i].data) : i \in 1..Len(events)}

\* C10: handle_http_read writes AT+HTTPREAD=<offset>,<len> first; it reads
\* raw bytes only after a success terminator and then a line starting with
\* "+HTTPREAD: <len>" were read, the raw bytes are the len bytes that follow
\* that line and fill buf in order; it returns success only at the first
\* line starting with "+HTTPREAD: 0" read after them.  When all it consumed
\* is the modem's answer to this request, the raw bytes are body bytes and
\* no body byte went through read_line.
C10_HttpReadOrder ==
    (op.kind = "http_read" /\ Written) =>
        LET ok == OkPos
            st == StartPos(ok)
            en == EndPos(st)
        IN  /\ events[1] = WriteEv
            /\ last_written = S_HTTPREAD_CMD \o Dec(op.offset) \o <<",">> \o Dec(op.len)
            /\ \A i \in 2..Len(events) : events[i] # WriteEv
            /\ RawIdx = {i \in 1..Len(events) : st # 0 /\ st < i /\ i <= st + Len(buf)}
            /\ Len(buf) <= op.len
            /\ \A i \in 1..Len(buf) : st # 0 /\ events[st + i] = RawEv(buf[i])
            /\ phase = "response" => ok = 0
            /\ phase = "start_urc" => ok # 0 /\ st = 0
            /\ phase = "body" => st # 0 /\ st = Len(events) - Len(buf) /\ Len(buf) < op.len
            /\ phase = "end_urc" => st # 0 /\ Len(buf) = op.len /\ en = 0
            /\ (cpc = "drop" /\ response.ok) =>
                  /\ Len(buf) = op.len
                  /\ en = Len(events)
            /\ ConsumedTags \subseteq {0, ncmd} =>
                  /\ \A i \in 1..Len(events) : events[i].ev # "framed_body"
                  /\ \A i \in RawIdx : events[i].data[1].body

C10_Witness ==
    /\ cpc = "drop"
    /\ op.kind = "http_read"
    /\ op.len = 2
    /\ response.ok
    /\ Bytes(buf) = <<"K", LF>>
    /\ \E i \in (OkPos + 1)..(StartPos(OkPos) - 1) : events[i].ev = "line"

----------------------------------------------------------------------------
(* handle_http_write *)

\* the position in events of the write of the body, 0 if it was not written
BodyWritePos == FirstIn({i \in 1..Len(events) : events[i] = BodyWriteEv})

\* event i is the line l sent by the modem in reply to this command
IsOwnLine(i, l) ==
    /\ events[i].ev = "line"
    /\ Bytes(events[i].data) = l
    /\ Tags(events[i].data) = {ncmd}

\* C11: handle_http_write writes the body only after a DOWNLOAD line the
\* modem sent in reply to its AT+HTTPDATA was read, returns Ok only after an
\* OK line in reply to it was read after the body was written, and writes
\* the body at most once.
C11_BodyAfterDownload ==
    (op.kind = "http_write" /\ Written) =>
        LET b == BodyWritePos
        IN  /\ b # 0 => \E i \in 1..(b - 1) : IsOwnLine(i, S_DOWNLOAD)
            /\ \A i \in 1..Len(events) : events[i] = BodyWriteEv => i = b
            /\ (cpc = "drop" /\ response.ok) =>
                  /\ b # 0
                  /\ \E i \in (b + 1)..Len(events) : IsOwnLine(i, S_OK)

(***************************************************************************)
(* HttpResponseBody: read and read_to_end.  The exchange handle_http_read  *)
(* makes on the modem's stream is modelled above; here it is one call that *)
(* returns Ok or an error.                                                 *)
(***************************************************************************)

MAX_READ_BUFFER_SIZE == AT_BUFFER_SIZE * MAX_RESPONSE_LINES

MaxReads == 3

\* content lengths a +HTTPACTION URC advertises, and sizes of caller buffers
BodyLens == {0, 1, 2, MAX_READ_BUFFER_SIZE, MAX_READ_BUFFER_SIZE + 1,
             2 * MAX_READ_BUFFER_SIZE}

BufLens == {0, 1, 2, MAX_READ_BUFFER_SIZE, MAX_READ_BUFFER_SIZE + 1,
            2 * MAX_READ_BUFFER_SIZE}

Min(a, b) == IF a <= b THEN a ELSE b

OkN(n) == [ok |-> TRUE, n |-> n, set |-> TRUE]

ErrN == [ok |-> FALSE, n |-> 0, set |-> TRUE]

\* HttpResponseBody::new
BodyNew(l) ==
    /\ bpc = "none"
    /\ response_body' = [len |-> l, pos |-> 0]
    /\ bpc' = "idle"
    /\ UNCHANGED <<atVars, otherVars, cloudVars, pipeVars, rd, rd_ret, rte, rte_ret, requests, returned, nreads>>

ReadLenIgnoresRemaining(remaining, n) == n

\* read: the length of the slice handed to handle_http_read
ReadLen(remaining, n) == Min(remaining, n)

\* read, up to the call of handle_http_read
ReadEnter(n) ==
    LET remaining == response_body.len - response_body.pos
        len == ReadLen(remaining, n)
    IN  IF remaining = 0
        THEN /\ rd' = [buf |-> n, pos |-> response_body.pos, len |-> 0,
                       issued |-> FALSE]
             /\ rd_ret' = OkN(0)
             /\ bpc' = IF rte.active THEN "loop" ELSE "idle"
             /\ UNCHANGED requests
        ELSE /\ rd' = [buf |-> n, pos |-> response_body.pos, len |-> len,
                       issued |-> TRUE]
             /\ rd_ret' = NoValue
             /\ requests' = Append(requests,
                                   [offset |-> response_body.pos, len |-> len])
             /\ bpc' = "read"

\* a caller calls read(buf)
Read(n) ==
    /\ bpc = "idle"
    /\ nreads < MaxReads
    /\ nreads' = nreads + 1
    /\ ReadEnter(n)
    /\ UNCHANGED <<atVars, otherVars, cloudVars, pipeVars, response_body, rte, rte_ret, returned>>

\* read: handle_http_read returned Ok
ReadOk ==
    /\ bpc = "read"
    /\ response_body' = [response_body EXCEPT !.pos = @ + rd.len]
    /\ rd_ret' = OkN(rd.len)
    /\ returned' = returned + rd.len
    /\ bpc' = IF rte.active THEN "loop" ELSE "idle"
    /\ UNCHANGED <<atVars, otherVars, cloudVars, pipeVars, rd, rte, rte_ret, requests, nreads>>

\* read: use_controller returned an error
ReadErr ==
    /\ bpc = "read"
    /\ rd_ret' = ErrN
    /\ bpc' = IF rte.active THEN "loop" ELSE "idle"
    /\ UNCHANGED <<atVars, otherVars, cloudVars, pipeVars, response_body, rd, rte, rte_ret, requests, returned,
                   nreads>>

\* a caller calls read_to_end(buf)
ReadToEnd(n) ==
    /\ bpc = "idle"
    /\ nreads < MaxReads
    /\ nreads' = nreads + 1
    /\ rte' = [active |-> TRUE, buf |-> n, left |-> n, total |-> 0,
               pos |-> response_body.pos]
    /\ rte_ret' = NoValue
    /\ bpc' = "while"
    /\ UNCHANGED <<atVars, otherVars, cloudVars, pipeVars, response_body, rd, rd_ret, requests, returned>>

\* read_to_end: the loop condition, and the call of read
ReadToEndWhile ==
    /\ bpc = "while"
    /\ IF rte.left # 0
       THEN /\ ReadEnter(rte.left)
            /\ UNCHANGED <<rte, rte_ret>>
       ELSE /\ rte_ret' = OkN(rte.total)
            /\ rte' = [rte EXCEPT !.active = FALSE]
            /\ bpc' = "idle"
            /\ UNCHANGED <<rd, rd_ret, requests>>
    /\ UNCHANGED <<atVars, otherVars, cloudVars, pipeVars, response_body, returned, nreads>>

\* read_to_end: the match on the result of read
ReadToEndMatch ==
    /\ bpc = "loop"
    /\ rte.active
    /\ IF ~rd_ret.ok
       THEN /\ rte_ret' = ErrN
            /\ rte' = [rte EXCEPT !.active = FALSE]
            /\ bpc' = "idle"
       ELSE IF rd_ret.n = 0
       THEN /\ rte_ret' = OkN(rte.total)
            /\ rte' = [rte EXCEPT !.active = FALSE]
            /\ bpc' = "idle"
       ELSE /\ rte' = [rte EXCEPT !.left = @ - rd_ret.n,
                                  !.total = @ + rd_ret.n]
            /\ bpc' = "while"
            /\ UNCHANGED rte_ret
    /\ UNCHANGED <<atVars, otherVars, cloudVars, pipeVars, response_body, rd, rd_ret, requests, returned,
                   nreads>>

NextBody ==
    \/ \E l \in BodyLens : BodyNew(l)
    \/ \E n \in BufLens : Read(n)
    \/ ReadOk
    \/ ReadErr
    \/ \E n \in BufLens : ReadToEnd(n)
    \/ ReadToEndWhile
    \/ ReadToEndMatch

SpecBody == Init /\ [][NextBody]_vars

(***************************************************************************)
(* HttpResponseBody                                                        *)
(***************************************************************************)

LastRequest == requests[Len(requests)]

\* C12: HttpResponseBody keeps 0 <= pos <= L; a successful read with a
\* non-empty buffer returns min(L - pos, buf.len()) bytes that it requested
\* at offset pos, and advances pos by that number; the bytes returned add up
\* to pos, and to L when a read with a non-empty buffer returns Ok(0); a
\* read at pos = L returns Ok(0) and issues no AT+HTTPREAD; and read_to_end
\* from pos = 0 on a buffer of at least L bytes returns L.
C12_BodyRead ==
    /\ 0 <= response_body.pos /\ response_body.pos <= response_body.len
    /\ returned = response_body.pos
    /\ (bpc \in {"idle", "loop"} /\ rd_ret.set /\ rd_ret.ok /\ rd.buf # 0) =>
          /\ rd_ret.n = Min(response_body.len - rd.pos, rd.buf)
          /\ response_body.pos = rd.pos + rd_ret.n
          /\ rd.issued => /\ LastRequest.offset = rd.pos
                          /\ LastRequest.len = rd_ret.n
          /\ rd_ret.n = 0 => returned = response_body.len
    /\ (bpc \in {"idle", "loop"} /\ rd_ret.set /\ rd.pos = response_body.len) =>
          /\ rd_ret = OkN(0)
          /\ ~rd.issued
    /\ (bpc \in {"idle", "loop"} /\ rd_ret.set /\ ~rd_ret.ok) =>
          response_body.pos = rd.pos
    /\ (bpc = "idle" /\ rte_ret.set /\ rte_ret.ok /\ rte.pos = 0
        /\ rte.buf >= response_body.len) =>
          rte_ret.n = response_body.len

\* a body of more than one byte was read to its end in two reads, and the
\* next read returned Ok(0)
C12_Witness ==
    /\ response_body.len > 1
    /\ Len(requests) = 2
    /\ returned = response_body.len
    /\ bpc = "idle"
    /\ rd_ret = OkN(0)
    /\ ~rd.issued
    /\ rd.buf # 0

\* C13: every AT+HTTPREAD issued by HttpResponseBody::read requests at most
\* MAX_READ_BUFFER_SIZE bytes.
C13_RequestAtMostMax ==
    \A i \in 1..Len(requests) : requests[i].len <= MAX_READ_BUFFER_SIZE

(***************************************************************************)
(* The cloud controller on SimComCellularModule.  An AT command is one     *)
(* step here: it returns Ok, or an error (an ERROR line, a timeout).  A    *)
(* modem that has stopped answering lets every command end in an error.    *)
(***************************************************************************)

UPLOAD_CHANNEL_SIZE == 4

MaxUploads == 5

Answers == IF modem_up THEN {TRUE, FALSE} ELSE {FALSE}

Failed == Append(handler_log, "Err")

\* an AT command whose error is returned with `?`
AtCmd(pc, name, okpc, done) ==
    /\ cloud_pc = pc
    /\ last_cmd' = name
    /\ \E answer \in Answers :
          IF answer
          THEN cloud_pc' = okpc /\ handler_log' = handler_log \o done
          ELSE cloud_pc' = "reset" /\ handler_log' = Failed

\* while read_network_registration()?.1 != Registered { Timer }
CregLoop(pc, okpc) ==
    /\ cloud_pc = pc
    /\ last_cmd' = "AT+CREG?"
    /\ \E answer \in Answers :
          IF answer
          THEN /\ \E registered \in BOOLEAN :
                     cloud_pc' = IF registered THEN okpc ELSE pc
               /\ UNCHANGED handler_log
          ELSE cloud_pc' = "reset" /\ handler_log' = Failed

\* once: the match on the state
Once ==
    /\ cloud_pc = "once"
    /\ once_state' = cloud_state
    /\ handler_log' = <<>>
    /\ cloud_pc' = CASE cloud_state = "Startup" -> "power_cycle"
                     [] cloud_state = "Connected" -> "receive"
                     [] cloud_state = "Sleeping" -> "ready"
    /\ UNCHANGED <<atVars, otherVars, bodyVars, pipeVars, cloud_state, cloud_job, http_initialized,
                   time_synced, upload_channel, modem_up, last_cmd, init_ok,
                   inits, uploads_sent>>

\* power_cycle: if self.is_alive().await
PowerCycle ==
    /\ cloud_pc = "power_cycle"
    /\ last_cmd' = "AT"
    /\ \E answer \in Answers :
          cloud_pc' = IF answer THEN "power_down" ELSE "power_on"
    /\ UNCHANGED <<atVars, otherVars, bodyVars, pipeVars, cloud_state, cloud_job, http_initialized,
                   time_synced, upload_channel, modem_up, init_ok, inits,
                   once_state, handler_log, uploads_sent>>

PowerDown ==
    /\ AtCmd("power_down", "AT+CPOF", "power_on", <<>>)
    /\ UNCHANGED <<atVars, otherVars, bodyVars, pipeVars, cloud_state, cloud_job, http_initialized,
                   time_synced, upload_channel, modem_up, init_ok, inits,
                   once_state, uploads_sent>>

PowerOnKeepsFlag ==
    /\ cloud_pc = "power_on"
    /\ UNCHANGED http_initialized
    /\ init_ok' = FALSE
    /\ inits' = 0
    /\ \E gpio \in BOOLEAN :
          IF gpio
          THEN cloud_pc' = "ensure_at" /\ UNCHANGED handler_log
          ELSE cloud_pc' = "reset" /\ handler_log' = Failed
    /\ UNCHANGED <<atVars, otherVars, bodyVars, pipeVars, cloud_state, cloud_job, time_synced,
                   upload_channel, modem_up, last_cmd, once_state,
                   uploads_sent>>

\* power_on: the flag and the power key
PowerOn ==
    /\ cloud_pc = "power_on"
    /\ http_initialized' = FALSE
    /\ init_ok' = FALSE
    /\ inits' = 0
    /\ \E gpio \in BOOLEAN :
          IF gpio
          THEN cloud_pc' = "ensure_at" /\ UNCHANGED handler_log
          ELSE cloud_pc' = "reset" /\ handler_log' = Failed
    /\ UNCHANGED <<atVars, otherVars, bodyVars, pipeVars, cloud_state, cloud_job, time_synced,
                   upload_channel, modem_up, last_cmd, once_state,
                   uploads_sent>>

\* ensure_at: AT is repeated until it succeeds or the 10 s are over
EnsureAt ==
    /\ cloud_pc = "ensure_at"
    /\ last_cmd' = "AT"
    /\ \E answer \in Answers :
          IF answer
          THEN cloud_pc' = "ctzu" /\ UNCHANGED handler_log
          ELSE \/ UNCHANGED <<cloud_pc, handler_log>>
               \/ cloud_pc' = "reset" /\ handler_log' = Failed
    /\ UNCHANGED <<atVars, otherVars, bodyVars, pipeVars, cloud_state, cloud_job, http_initialized,
                   time_synced, upload_channel, modem_up, init_ok, inits,
                   once_state, uploads_sent>>

\* power_on: set_automatic_time_and_time_zone_update
Ctzu ==
    /\ AtCmd("ctzu", "AT+CTZU=1", "set_apn", <<"power_cycle">>)
    /\ UNCHANGED <<atVars, otherVars, bodyVars, pipeVars, cloud_state, cloud_job, http_initialized,
                   time_synced, upload_channel, modem_up, init_ok, inits,
                   once_state, uploads_sent>>

SetApn ==
    /\ AtCmd("set_apn", "AT+CGDCONT", "creg", <<>>)
    /\ UNCHANGED <<atVars, otherVars, bodyVars, pipeVars, cloud_state, cloud_job, http_initialized,
                   time_synced, upload_channel, modem_up, init_ok, inits,
                   once_state, uploads_sent>>

Creg ==
    /\ CregLoop("creg", "rtc_network")
    /\ UNCHANGED <<atVars, otherVars, bodyVars, pipeVars, cloud_state, cloud_job, http_initialized,
                   time_synced, upload_channel, modem_up, init_ok, inits,
                   once_state, uploads_sent>>

\* startup_network: let _rtc = self.query_real_time_clock().await?
RtcNetwork ==
    /\ AtCmd("rtc_network", "AT+CCLK?", "rtc", <<"startup_network">>)
    /\ UNCHANGED <<atVars, otherVars, bodyVars, pipeVars, cloud_state, cloud_job, http_initialized,
                   time_synced, upload_channel, modem_up, init_ok, inits,
                   once_state, uploads_sent>>

\* handle_startup: let now = self.module.query_real_time_clock().await?
Rtc ==
    /\ AtCmd("rtc", "AT+CCLK?", "time_sync", <<"rtc">>)
    /\ UNCHANGED <<atVars, otherVars, bodyVars, pipeVars, cloud_state, cloud_job, http_initialized,
                   time_synced, upload_channel, modem_up, init_ok, inits,
                   once_state, uploads_sent>>

TimeSyncSkipped ==
    /\ cloud_pc = "time_sync"
    /\ UNCHANGED time_synced
    /\ handler_log' = Append(handler_log, "time_sync")
    /\ cloud_pc' = "connected"
    /\ UNCHANGED <<atVars, otherVars, bodyVars, pipeVars, cloud_state, cloud_job, http_initialized,
                   upload_channel, modem_up, last_cmd, init_ok, inits,
                   once_state, uploads_sent>>

\* UtcTime::time_sync(now)
TimeSync ==
    /\ cloud_pc = "time_sync"
    /\ time_synced' = TRUE
    /\ handler_log' = Append(handler_log, "time_sync")
    /\ cloud_pc' = "connected"
    /\ UNCHANGED <<atVars, otherVars, bodyVars, pipeVars, cloud_state, cloud_job, http_initialized,
                   upload_channel, modem_up, last_cmd, init_ok, inits,
                   once_state, uploads_sent>>

\* handle_startup: self.state = Connected, and the call of upload_event
SetConnected ==
    /\ cloud_pc = "connected"
    /\ cloud_state' = "Connected"
    /\ handler_log' = Append(handler_log, "Connected")
    /\ cloud_job' = "StartupEvent"
    /\ cloud_pc' = "request"
    /\ UNCHANGED <<atVars, otherVars, bodyVars, pipeVars, http_initialized, time_synced,
                   upload_channel, modem_up, last_cmd, init_ok, inits,
                   once_state, uploads_sent>>

\* SimComCellularModule::request
Request ==
    /\ cloud_pc = "request"
    /\ IF ~http_initialized
       THEN /\ last_cmd' = "AT+HTTPINIT"
            /\ inits' = inits + 1
            /\ \E answer \in Answers :
                  IF answer
                  THEN /\ http_initialized' = TRUE
                       /\ init_ok' = TRUE
                       /\ cloud_pc' = "header1"
                       /\ UNCHANGED handler_log
                  ELSE /\ cloud_pc' = "reset"
                       /\ handler_log' = Failed
                       /\ UNCHANGED <<http_initialized, init_ok>>
       ELSE /\ cloud_pc' = "header1"
            /\ UNCHANGED <<last_cmd, inits, http_initialized, init_ok,
                           handler_log>>
    /\ UNCHANGED <<atVars, otherVars, bodyVars, pipeVars, cloud_state, cloud_job, time_synced,
                   upload_channel, modem_up, once_state, uploads_sent>>

\* request.set_header("Connection", "Keep-Alive")
Header1 ==
    /\ AtCmd("header1", "AT+HTTPPARA", "header2", <<>>)
    /\ UNCHANGED <<atVars, otherVars, bodyVars, pipeVars, cloud_state, cloud_job, http_initialized,
                   time_synced, upload_channel, modem_up, init_ok, inits,
                   once_state, uploads_sent>>

\* request.set_header("X-Token", SOLAR_BACKEND_TOKEN)
Header2 ==
    /\ AtCmd("header2", "AT+HTTPPARA", "set_url", <<>>)
    /\ UNCHANGED <<atVars, otherVars, bodyVars, pipeVars, cloud_state, cloud_job, http_initialized,
                   time_synced, upload_channel, modem_up, init_ok, inits,
                   once_state, uploads_sent>>

\* post: set_url
SetUrl ==
    /\ AtCmd("set_url", "AT+HTTPPARA", "http_write", <<>>)
    /\ UNCHANGED <<atVars, otherVars, bodyVars, pipeVars, cloud_state, cloud_job, http_initialized,
                   time_synced, upload_channel, modem_up, init_ok, inits,
                   once_state, uploads_sent>>

\* post: handle_http_write(body)
HttpWrite ==
    /\ AtCmd("http_write", "AT+HTTPDATA", "action", <<>>)
    /\ UNCHANGED <<atVars, otherVars, bodyVars, pipeVars, cloud_state, cloud_job, http_initialized,
                   time_synced, upload_channel, modem_up, init_ok, inits,
                   once_state, uploads_sent>>

\* post: action(Post), and body.is_empty()
Action ==
    /\ cloud_pc = "action"
    /\ last_cmd' = "AT+HTTPACTION"
    /\ \E answer \in Answers :
          IF answer
          THEN /\ \E empty \in BOOLEAN :
                     cloud_pc' = IF empty THEN "uploaded" ELSE "read_body"
               /\ UNCHANGED handler_log
          ELSE cloud_pc' = "reset" /\ handler_log' = Failed
    /\ UNCHANGED <<atVars, otherVars, bodyVars, pipeVars, cloud_state, cloud_job, http_initialized,
                   time_synced, upload_channel, modem_up, init_ok, inits,
                   once_state, uploads_sent>>

\* body.read_as_str(&mut body_buffer).await?
ReadBody ==
    /\ AtCmd("read_body", "AT+HTTPREAD", "uploaded", <<>>)
    /\ UNCHANGED <<atVars, otherVars, bodyVars, pipeVars, cloud_state, cloud_job, http_initialized,
                   time_synced, upload_channel, modem_up, init_ok, inits,
                   once_state, uploads_sent>>

\* what follows the upload in handle_startup, handle_connected and
\* handle_sleeping
Uploaded ==
    /\ cloud_pc = "uploaded"
    /\ cloud_job' = "none"
    /\ handler_log' = Append(handler_log, cloud_job)
    /\ cloud_pc' = IF cloud_job = "OfflineEvent" THEN "set_sleep_mode"
                   ELSE "once"
    /\ cloud_state' = IF cloud_job = "OnlineEvent" THEN "Connected"
                      ELSE cloud_state
    /\ UNCHANGED <<atVars, otherVars, bodyVars, pipeVars, http_initialized, time_synced,
                   upload_channel, modem_up, last_cmd, init_ok, inits,
                   once_state, uploads_sent>>

\* handle_connected: with_timeout(4 s, self.upload_receiver.receive())
Receive ==
    /\ cloud_pc = "receive"
    /\ IF upload_channel # <<>>
       THEN /\ upload_channel' = Tail(upload_channel)
            /\ handler_log' = Append(handler_log, "receive")
            /\ cloud_job' = "reading"
            /\ cloud_pc' = "request"
       ELSE /\ UNCHANGED upload_channel
            /\ handler_log' = Append(handler_log, "timeout")
            /\ IF time_synced
               THEN cloud_job' = "OfflineEvent" /\ cloud_pc' = "request"
               ELSE cloud_job' = "none" /\ cloud_pc' = "set_sleep_mode"
    /\ UNCHANGED <<atVars, otherVars, bodyVars, pipeVars, cloud_state, http_initialized,
                   time_synced, modem_up, last_cmd, init_ok, inits,
                   once_state, uploads_sent>>

SetSleepModeSleepsAnyway ==
    /\ cloud_pc = "set_sleep_mode"
    /\ last_cmd' = "AT+CSCLK=2"
    /\ \E answer \in Answers :
          IF answer
          THEN /\ cloud_state' = "Sleeping"
               /\ handler_log' = handler_log \o <<"RxSleep", "Sleeping">>
               /\ cloud_pc' = "once"
          ELSE /\ cloud_state' = "Sleeping"
               /\ handler_log' = Append(handler_log, "Sleeping")
               /\ cloud_pc' = "once"
    /\ UNCHANGED <<atVars, otherVars, bodyVars, pipeVars, cloud_job, http_initialized, time_synced,
                   upload_channel, modem_up, init_ok, inits, once_state,
                   uploads_sent>>

\* handle_connected: set_sleep_mode(RxSleep), self.state = Sleeping
SetSleepMode ==
    /\ cloud_pc = "set_sleep_mode"
    /\ last_cmd' = "AT+CSCLK=2"
    /\ \E answer \in Answers :
          IF answer
          THEN /\ cloud_state' = "Sleeping"
               /\ handler_log' = handler_log \o <<"RxSleep", "Sleeping">>
               /\ cloud_pc' = "once"
          ELSE /\ UNCHANGED cloud_state
               /\ handler_log' = Failed
               /\ cloud_pc' = "reset"
    /\ UNCHANGED <<atVars, otherVars, bodyVars, pipeVars, cloud_job, http_initialized, time_synced,
                   upload_channel, modem_up, init_ok, inits, once_state,
                   uploads_sent>>

ReadyReceives ==
    /\ cloud_pc = "ready"
    /\ upload_channel # <<>>
    /\ upload_channel' = Tail(upload_channel)
    /\ handler_log' = Append(handler_log, "ready")
    /\ cloud_pc' = "wake_up"
    /\ UNCHANGED <<atVars, otherVars, bodyVars, pipeVars, cloud_state, cloud_job, http_initialized,
                   time_synced, modem_up, last_cmd, init_ok, inits,
                   once_state, uploads_sent>>

\* handle_sleeping: self.upload_receiver.ready_to_receive()
Ready ==
    /\ cloud_pc = "ready"
    /\ upload_channel # <<>>
    /\ UNCHANGED upload_channel
    /\ handler_log' = Append(handler_log, "ready")
    /\ cloud_pc' = "wake_up"
    /\ UNCHANGED <<atVars, otherVars, bodyVars, pipeVars, cloud_state, cloud_job, http_initialized,
                   time_synced, modem_up, last_cmd, init_ok, inits,
                   once_state, uploads_sent>>

\* wake_up: self.is_alive().await, the result is not used
WakeUp ==
    /\ cloud_pc = "wake_up"
    /\ last_cmd' = "AT"
    /\ cloud_pc' = "wake_alive"
    /\ UNCHANGED <<atVars, otherVars, bodyVars, pipeVars, cloud_state, cloud_job, http_initialized,
                   time_synced, upload_channel, modem_up, init_ok, inits,
                   once_state, handler_log, uploads_sent>>

\* wake_up: while !self.is_alive().await
WakeAlive ==
    /\ cloud_pc = "wake_alive"
    /\ last_cmd' = "AT"
    /\ \E answer \in Answers :
          cloud_pc' = IF answer THEN "wake_creg" ELSE "wake_yield"
    /\ UNCHANGED <<atVars, otherVars, bodyVars, pipeVars, cloud_state, cloud_job, http_initialized,
                   time_synced, upload_channel, modem_up, init_ok, inits,
                   once_state, handler_log, uploads_sent>>

\* wake_up: yield_now().await
WakeYield ==
    /\ cloud_pc = "wake_yield"
    /\ cloud_pc' = "wake_alive"
    /\ UNCHANGED <<atVars, otherVars, bodyVars, pipeVars, cloud_state, cloud_job, http_initialized,
                   time_synced, upload_channel, modem_up, last_cmd, init_ok,
                   inits, once_state, handler_log, uploads_sent>>

WakeCreg ==
    /\ CregLoop("wake_creg", "woken")
    /\ UNCHANGED <<atVars, otherVars, bodyVars, pipeVars, cloud_state, cloud_job, http_initialized,
                   time_synced, upload_channel, modem_up, init_ok, inits,
                   once_state, uploads_sent>>

\* handle_sleeping: after wake_up
Woken ==
    /\ cloud_pc = "woken"
    /\ handler_log' = Append(handler_log, "wake_up")
    /\ IF time_synced
       THEN /\ cloud_job' = "OnlineEvent"
            /\ cloud_pc' = "request"
            /\ UNCHANGED cloud_state
       ELSE /\ cloud_state' = "Connected"
            /\ cloud_pc' = "once"
            /\ UNCHANGED cloud_job
    /\ UNCHANGED <<atVars, otherVars, bodyVars, pipeVars, http_initialized, time_synced,
                   upload_channel, modem_up, last_cmd, init_ok, inits,
                   once_state, uploads_sent>>

ResetKeepsState ==
    /\ cloud_pc = "reset"
    /\ \E gpio \in BOOLEAN :
          IF gpio
          THEN /\ UNCHANGED cloud_state
               /\ handler_log' = Append(handler_log, "reset")
               /\ cloud_pc' = "once"
          ELSE /\ cloud_pc' = "reset_wait"
               /\ UNCHANGED <<cloud_state, handler_log>>
    /\ cloud_job' = "none"
    /\ UNCHANGED <<atVars, otherVars, bodyVars, pipeVars, http_initialized, time_synced,
                   upload_channel, modem_up, last_cmd, init_ok, inits,
                   once_state, uploads_sent>>

\* once: while self.module.reset().await.is_err(), self.state = Startup
Reset ==
    /\ cloud_pc = "reset"
    /\ \E gpio \in BOOLEAN :
          IF gpio
          THEN /\ cloud_state' = "Startup"
               /\ handler_log' = Append(handler_log, "reset")
               /\ cloud_pc' = "once"
          ELSE /\ cloud_pc' = "reset_wait"
               /\ UNCHANGED <<cloud_state, handler_log>>
    /\ cloud_job' = "none"
    /\ UNCHANGED <<atVars, otherVars, bodyVars, pipeVars, http_initialized, time_synced,
                   upload_channel, modem_up, last_cmd, init_ok, inits,
                   once_state, uploads_sent>>

\* once: Timer::after_secs(30)
ResetWait ==
    /\ cloud_pc = "reset_wait"
    /\ cloud_pc' = "reset"
    /\ UNCHANGED <<atVars, otherVars, bodyVars, pipeVars, cloud_state, cloud_job, http_initialized,
                   time_synced, upload_channel, modem_up, last_cmd, init_ok,
                   inits, once_state, handler_log, uploads_sent>>

\* the solar monitor sends an encoded batch
UploadSend ==
    /\ uploads_sent < MaxUploads
    /\ Len(upload_channel) < UPLOAD_CHANNEL_SIZE
    /\ uploads_sent' = uploads_sent + 1
    /\ upload_channel' = Append(upload_channel, uploads_sent + 1)
    /\ UNCHANGED <<atVars, otherVars, bodyVars, pipeVars, cloud_state, cloud_pc, cloud_job,
                   http_initialized, time_synced, modem_up, last_cmd, init_ok,
                   inits, once_state, handler_log>>

\* the modem stops answering, and does not start again
ModemStops ==
    /\ modem_up
    /\ modem_up' = FALSE
    /\ UNCHANGED <<atVars, otherVars, bodyVars, pipeVars, cloud_state, cloud_pc, cloud_job,
                   http_initialized, time_synced, upload_channel, last_cmd,
                   init_ok, inits, once_state, handler_log, uploads_sent>>

CloudNext ==
    \/ Once
    \/ PowerCycle
    \/ PowerDown
    \/ PowerOn
    \/ EnsureAt
    \/ Ctzu
    \/ SetApn
    \/ Creg
    \/ RtcNetwork
    \/ Rtc
    \/ TimeSync
    \/ SetConnected
    \/ Request
    \/ Header1
    \/ Header2
    \/ SetUrl
    \/ HttpWrite
    \/ Action
    \/ ReadBody
    \/ Uploaded
    \/ Receive
    \/ SetSleepMode
    \/ Ready
    \/ WakeUp
    \/ WakeAlive
    \/ WakeYield
    \/ WakeCreg
    \/ Woken
    \/ Reset
    \/ ResetWait

NextCloud ==
    \/ CloudNext
    \/ UploadSend
    \/ ModemStops

SpecCloud == Init /\ [][NextCloud]_vars

\* the executor keeps polling the cloud runner's task
LiveCloud == SpecCloud /\ WF_vars(CloudNext)

(***************************************************************************)
(* SimComCellularModule::request and the cloud controller                  *)
(***************************************************************************)

HttpCommands == {"AT+HTTPPARA", "AT+HTTPDATA", "AT+HTTPACTION"}

\* C14: AT+HTTPINIT is issued at most once after a power_on, the flag
\* http_initialized is set exactly when an AT+HTTPINIT issued after the most
\* recent power_on has returned Ok, and an AT+HTTPPARA, AT+HTTPDATA or
\* AT+HTTPACTION is issued only after such an AT+HTTPINIT.
C14_LazyHttpInit ==
    /\ inits <= 1
    /\ http_initialized = init_ok
    /\ init_ok => inits = 1
    /\ last_cmd \in HttpCommands => init_ok

\* the request that posts the OfflineEvent reuses the AT+HTTPINIT of an
\* earlier request
C14_Witness ==
    /\ cloud_job = "OfflineEvent"
    /\ last_cmd = "AT+HTTPPARA"
    /\ cloud_pc = "header2"
    /\ inits = 1

Transitions == {<<"Startup", "Connected">>, <<"Connected", "Sleeping">>,
                <<"Sleeping", "Connected">>}

LastOf(log) == IF log = <<>> THEN "none" ELSE log[Len(log)]

In(x, log) == \E i \in 1..Len(log) : log[i] = x

\* C15: the state is Startup, Connected or Sleeping; while a call of once has
\* met no error the state is the one at its entry or the next one along
\* Startup->Connected, Connected->Sleeping, Sleeping->Connected; reset is
\* called only after an error; a call of once that met an error returns
\* only after reset succeeded, with the state Startup; and the loop is
\* always ready for the next call of once.
C15_StateMachine ==
    /\ cloud_state \in {"Startup", "Connected", "Sleeping"}
    /\ ~In("Err", handler_log) =>
          /\ \/ cloud_state = once_state
             \/ <<once_state, cloud_state>> \in Transitions
          /\ cloud_pc \notin {"reset", "reset_wait"}
          /\ ~In("reset", handler_log)
    /\ In("Err", handler_log) =>
          /\ cloud_pc \in {"reset", "reset_wait", "once"}
          /\ cloud_pc = "once" =>
                /\ cloud_state = "Startup"
                /\ LastOf(handler_log) = "reset"
          /\ cloud_pc # "once" =>
                \/ cloud_state = once_state
                \/ <<once_state, cloud_state>> \in Transitions
    /\ cloud_pc = "once" => ENABLED Once

\* an error in Sleeping was followed by a successful reset, and the state is
\* Startup
C15_Witness ==
    /\ cloud_pc = "once"
    /\ once_state = "Sleeping"
    /\ LastOf(handler_log) = "reset"
    /\ cloud_state = "Startup"

StartupOrder == <<"power_cycle", "startup_network", "rtc", "time_sync",
                  "Connected", "StartupEvent">>

IsStep(x) == x \notin {"Err", "reset"}

Completed == SelectSeq(handler_log, IsStep)

\* C16: what handle_startup has completed is a prefix of power_cycle,
\* startup_network, RTC query, time_sync, state = Connected, StartupEvent
\* upload; the wall clock is synchronized whenever the state is Connected or
\* Sleeping; and when once returns after a StartupEvent upload that failed,
\* the state is Startup.
C16_StartupOrder ==
    /\ once_state = "Startup" => IsPrefix(Completed, StartupOrder)
    /\ cloud_state \in {"Connected", "Sleeping"} => time_synced
    /\ (/\ once_state = "Startup"
        /\ cloud_pc = "once"
        /\ In("Connected", handler_log)
        /\ ~In("StartupEvent", handler_log)) => cloud_state = "Startup"

\* the StartupEvent upload failed after the state had become Connected
C16_Witness ==
    /\ once_state = "Startup"
    /\ cloud_pc = "once"
    /\ In("Connected", handler_log)
    /\ In("Err", handler_log)
    /\ cloud_state = "Startup"
    /\ time_synced

TimeoutOrder ==
    IF time_synced THEN <<"timeout", "OfflineEvent", "RxSleep", "Sleeping">>
    ELSE <<"timeout", "RxSleep", "Sleeping">>

\* C17: after the receive timeout in Connected, what handle_connected has
\* completed is a prefix of OfflineEvent upload (if the wall clock is known),
\* AT+CSCLK=2, state = Sleeping; and when one of them has failed the state
\* is not Sleeping, and is Startup when once returns.
C17_SleepOrder ==
    (once_state = "Connected" /\ In("timeout", handler_log)) =>
        /\ IsPrefix(Completed, TimeoutOrder)
        /\ cloud_state = "Sleeping" <=> In("Sleeping", handler_log)
        /\ In("RxSleep", handler_log) => last_cmd = "AT+CSCLK=2"
        /\ In("Err", handler_log) =>
              /\ cloud_state # "Sleeping"
              /\ cloud_pc = "once" => cloud_state = "Startup"

\* the OfflineEvent was posted, AT+CSCLK=2 succeeded, and the state is
\* Sleeping
C17_Witness ==
    /\ once_state = "Connected"
    /\ cloud_pc = "once"
    /\ cloud_state = "Sleeping"
    /\ handler_log = <<"timeout", "OfflineEvent", "RxSleep", "Sleeping">>

\* C18: a payload leaves the upload channel only in the receive of
\* handle_connected, in the state Connected, and it is the oldest one; every
\* other change of the channel is a send that appends the next payload.
C18_OnlyConnectedConsumes ==
    [][upload_channel' # upload_channel =>
          \/ /\ upload_channel # <<>>
             /\ upload_channel' = Tail(upload_channel)
             /\ cloud_pc = "receive"
             /\ cloud_state = "Connected"
          \/ /\ uploads_sent' = uploads_sent + 1
             /\ upload_channel' = Append(upload_channel, uploads_sent')]_vars

\* startup_network failed and reset succeeded while the upload channel was
\* full
C18_Witness ==
    /\ once_state = "Startup"
    /\ cloud_pc = "once"
    /\ handler_log = <<"power_cycle", "Err", "reset">>
    /\ Len(upload_channel) = UPLOAD_CHANNEL_SIZE

\* C19: when the modem has stopped answering and an upload is ready, the
\* controller eventually calls reset.
C19_Recovers ==
    (~modem_up /\ upload_channel # <<>>) ~> (cloud_pc = "reset")

(***************************************************************************)
(* The channels between the VE.Direct runner, the solar monitor and the    *)
(* cloud controller.  A reading is its number, a batch the readings in it. *)
(***************************************************************************)

AVG_CHANNEL_SIZE == 8

BATCH_SIZE == 12

MaxReadings == 70

\* averaging_once, up to the send: the average of an interval
VeAverage ==
    /\ AtInit
    /\ ve_pc = "read"
    /\ readings_made < MaxReadings
    /\ readings_made' = readings_made + 1
    /\ average' = readings_made + 1
    /\ ve_pc' = "send"
    /\ UNCHANGED <<atVars, otherVars, bodyVars, cloudVars, avg_channel, mon_pc, upload,
                   mon_held, taken, encoded, delivered, received>>

\* averaging_once: self.rx.send(average).await
VeSend ==
    /\ AtInit
    /\ ve_pc = "send"
    /\ Len(avg_channel) < AVG_CHANNEL_SIZE
    /\ avg_channel' = Append(avg_channel, average)
    /\ ve_pc' = "read"
    /\ UNCHANGED <<atVars, otherVars, bodyVars, cloudVars, average, mon_pc, upload,
                   mon_held, readings_made, taken, encoded, delivered,
                   received>>

\* handle_reading: the entry is pushed, and a full batch is taken and encoded
\* (the buffer has room for Upload::MAX_SIZE bytes)
HandleReading(reading) ==
    IF ~time_synced
    THEN UNCHANGED <<upload, mon_held, mon_pc, taken, encoded>>
    ELSE LET entries == Append(upload, reading)
         IN  /\ taken' = Append(taken, reading)
             /\ IF Len(entries) = BATCH_SIZE
                THEN /\ upload' = <<>>
                     /\ encoded' = Append(encoded, entries)
                     /\ mon_held' = entries
                     /\ mon_pc' = "send"
                ELSE /\ upload' = entries
                     /\ UNCHANGED <<encoded, mon_held, mon_pc>>

\* run_once: self.reading_receiver.receive().await, handle_reading
MonitorReceive ==
    /\ AtInit
    /\ mon_pc = "receive"
    /\ avg_channel # <<>>
    /\ avg_channel' = Tail(avg_channel)
    /\ HandleReading(Head(avg_channel))
    /\ UNCHANGED <<atVars, otherVars, bodyVars, cloudVars, ve_pc, average, readings_made,
                   delivered, received>>

MonitorSendDropsWhenFull ==
    /\ AtInit
    /\ mon_pc = "send"
    /\ IF Len(upload_channel) < UPLOAD_CHANNEL_SIZE
       THEN /\ upload_channel' = Append(upload_channel, mon_held)
            /\ delivered' = Append(delivered, mon_held)
       ELSE UNCHANGED <<upload_channel, delivered>>
    /\ mon_held' = <<>>
    /\ mon_pc' = "receive"
    /\ UNCHANGED <<atVars, otherVars, bodyVars, cloud_state, cloud_pc, cloud_job,
                   http_initialized, time_synced, modem_up, last_cmd, init_ok,
                   inits, once_state, handler_log, uploads_sent, avg_channel,
                   ve_pc, average, upload, readings_made, taken, encoded,
                   received>>

\* run_once: self.upload_sender.send(upload).await
MonitorSend ==
    /\ AtInit
    /\ mon_pc = "send"
    /\ Len(upload_channel) < UPLOAD_CHANNEL_SIZE
    /\ upload_channel' = Append(upload_channel, mon_held)
    /\ delivered' = Append(delivered, mon_held)
    /\ mon_held' = <<>>
    /\ mon_pc' = "receive"
    /\ UNCHANGED <<atVars, otherVars, bodyVars, cloud_state, cloud_pc, cloud_job,
                   http_initialized, time_synced, modem_up, last_cmd, init_ok,
                   inits, once_state, handler_log, uploads_sent, avg_channel,
                   ve_pc, average, upload, readings_made, taken, encoded,
                   received>>

\* handle_connected: self.upload_receiver.receive()
UploadReceive ==
    /\ AtInit
    /\ upload_channel # <<>>
    /\ upload_channel' = Tail(upload_channel)
    /\ received' = Append(received, Head(upload_channel))
    /\ UNCHANGED <<atVars, otherVars, bodyVars, cloud_state, cloud_pc, cloud_job,
                   http_initialized, time_synced, modem_up, last_cmd, init_ok,
                   inits, once_state, handler_log, uploads_sent, avg_channel,
                   ve_pc, average, mon_pc, upload, mon_held, readings_made,
                   taken, encoded, delivered>>

\* handle_startup: UtcTime::time_sync(now)
PipeTimeSync ==
    /\ AtInit
    /\ ~time_synced
    /\ time_synced' = TRUE
    /\ UNCHANGED <<atVars, otherVars, bodyVars, pipeVars, cloud_state, cloud_pc,
                   cloud_job, http_initialized, upload_channel, modem_up,
                   last_cmd, init_ok, inits, once_state, handler_log,
                   uploads_sent>>

\* the three tasks that use the channels
PipeNext ==
    \/ VeAverage
    \/ VeSend
    \/ MonitorReceive
    \/ MonitorSend
    \/ UploadReceive
    \/ PipeTimeSync

\* The control channels of the AT client share no state with the other two
\* channels, and no step of one side depends on the other: the steps of the
\* AT client are explored from the state in which the three tasks above have
\* not started, and the steps of the three tasks from the initial state of
\* the AT client.
NextPipe ==
    \/ PipeNext
    \/ PipeInit /\ ~time_synced /\ Next

SpecPipe == Init /\ [][NextPipe]_vars

(***************************************************************************)
(* Backpressure                                                            *)
(***************************************************************************)

RECURSIVE Concat(_)
Concat(ss) == IF ss = <<>> THEN <<>> ELSE Head(ss) \o Concat(Tail(ss))

Held == IF mon_pc = "send" THEN <<mon_held>> ELSE <<>>

\* C20: the control, averaged-reading and upload channels hold at most 2, 8
\* and 4 messages; the solar monitor suspended in send holds a full encoded
\* batch, has no open batch and can receive no reading; the VE.Direct runner
\* with an average to send and a full channel can do no step; every reading
\* put into a batch is in an encoded batch or in the open batch, every
\* encoded batch has been sent to the upload channel or is the one held, in
\* the order of encoding, and is received in that order; and the held batch
\* can be sent as soon as the upload channel has room.
C20_Backpressure ==
    /\ Len(tx_channel) <= CHANNEL_SIZE
    /\ Len(rx_channel) <= CHANNEL_SIZE
    /\ Len(avg_channel) <= AVG_CHANNEL_SIZE
    /\ Len(upload_channel) <= UPLOAD_CHANNEL_SIZE
    /\ mon_pc = "send" =>
          /\ Len(mon_held) = BATCH_SIZE
          /\ upload = <<>>
          /\ ~ENABLED MonitorReceive
          /\ Len(upload_channel) < UPLOAD_CHANNEL_SIZE => ENABLED MonitorSend
    /\ (ve_pc = "send" /\ Len(avg_channel) = AVG_CHANNEL_SIZE) =>
          ~ENABLED (VeAverage \/ VeSend)
    /\ Concat(encoded) \o upload = taken
    /\ delivered \o Held = encoded
    /\ received \o upload_channel = delivered

\* both channels are full, the solar monitor is suspended with a batch and
\* the VE.Direct runner with an average
C20_Witness ==
    /\ Len(upload_channel) = UPLOAD_CHANNEL_SIZE
    /\ mon_pc = "send"
    /\ Len(avg_channel) = AVG_CHANNEL_SIZE
    /\ ve_pc = "send"

(***************************************************************************)
(* UtcTime and solar_monitor::Runner::handle_reading.  A reading is its     *)
(* number.  Time is counted in units of 2^24 seconds, the monotonic clock  *)
(* and the wall clock alike, so that the 32 bits of offset_in_seconds are  *)
(* the 8 bits -128 .. 127 of the model.                                    *)
(***************************************************************************)

MaxInstant == 1

MaxSyncs == 2

MaxMonReadings == 25

\* readings that arrive before the first time_sync
MaxUnsynced == 1

\* the times the modem's clock reports, within its years 2000 to 2099
SyncTimes == {60, 61, 200}

\* the monotonic clock advances by a second
Tick ==
    /\ instant < MaxInstant
    /\ instant' = instant + 1
    /\ UNCHANGED <<atVars, bodyVars, cloudVars, pipeVars, veVars, avgVars, cmdVars, system_boot_time,
                   cur_upload, uploads_emitted, accepted, hr,
                   last_sync, nreadings, nsyncs>>

NowIgnoresElapsed ==
    IF system_boot_time.some THEN Some(system_boot_time.t) ELSE None

\* UtcTime::now
Now ==
    IF system_boot_time.some THEN Some(system_boot_time.t + instant) ELSE None

\* time_sync: new_system_boot_time
Anchor(now, since_system_boot) == now - since_system_boot

StoreKeepsFirst(current, new) == IF current.some THEN current ELSE Some(new)

\* time_sync: the match on the stored anchor
Store(current, new) ==
    IF current.some /\ current.t = new THEN current ELSE Some(new)

\* UtcTime::time_sync(now)
TimeSyncAt(now) ==
    /\ nsyncs < MaxSyncs
    /\ nsyncs' = nsyncs + 1
    /\ system_boot_time' = Store(system_boot_time, Anchor(now, instant))
    /\ last_sync' = [t |-> now, m |-> instant,
                     same |-> system_boot_time = Some(Anchor(now, instant))]
    /\ UNCHANGED <<atVars, bodyVars, cloudVars, pipeVars, veVars, avgVars, cmdVars, instant, cur_upload,
                   uploads_emitted, accepted, hr, nreadings>>

\* 2^31 seconds
I32_HALF == 128

\* `as i32` of an i64
AsI32(x) == ((x + I32_HALF) % (2 * I32_HALF)) - I32_HALF

\* heapless Vec::push, its result dropped
Push(entries, entry) ==
    IF Len(entries) < BATCH_SIZE THEN Append(entries, entry) ELSE entries

\* handle_reading: the entry is pushed to the open batch, or opens one
PushEntry(u, timestamp, reading) ==
    IF u.some
    THEN [u EXCEPT !.entries =
             Push(@, [offset |-> AsI32(timestamp - u.start_timestamp),
                      reading |-> reading])]
    ELSE [some |-> TRUE, start_timestamp |-> timestamp,
          entries |-> <<[offset |-> 0, reading |-> reading]>>]

IsFullAtEleven(entries) == Len(entries) >= BATCH_SIZE - 1

\* upload.entries.is_full()
IsFull(entries) == Len(entries) = BATCH_SIZE

TakeKeepsLast(u) == [u EXCEPT !.entries = <<u.entries[Len(u.entries)]>>]

\* self.upload.take(): what is left in self.upload
Take(u) == NoUpload

UnsyncedOpens(u, reading) ==
    IF u.some THEN u
    ELSE [some |-> TRUE, start_timestamp |-> 0,
          entries |-> <<[offset |-> 0, reading |-> reading]>>]

\* handle_reading: self.upload after `return None` for an unknown time
Unsynced(u, reading) == u

\* Runner::handle_reading
HandleReading2(reading) ==
    LET now == Now
    IN  IF ~now.some
        THEN /\ cur_upload' = Unsynced(cur_upload, reading)
             /\ hr' = [reading |-> reading, now |-> now, before |-> cur_upload,
                       ret |-> NoUpload]
             /\ UNCHANGED <<uploads_emitted, accepted>>
        ELSE LET pushed == PushEntry(cur_upload, now.t, reading)
             IN  /\ accepted' = accepted + 1
                 /\ IF IsFull(pushed.entries)
                    THEN /\ cur_upload' = Take(pushed)
                         /\ uploads_emitted' = uploads_emitted + 1
                         /\ hr' = [reading |-> reading, now |-> now,
                                   before |-> cur_upload, ret |-> pushed]
                    ELSE /\ cur_upload' = pushed
                         /\ hr' = [reading |-> reading, now |-> now,
                                   before |-> cur_upload, ret |-> NoUpload]
                         /\ UNCHANGED uploads_emitted

\* run_once calls handle_reading with the next reading
MonReading ==
    /\ nreadings < MaxMonReadings
    /\ Now.some \/ nreadings < MaxUnsynced
    /\ nreadings' = nreadings + 1
    /\ HandleReading2(nreadings + 1)
    /\ UNCHANGED <<atVars, bodyVars, cloudVars, pipeVars, veVars, avgVars, cmdVars, instant,
                   system_boot_time, last_sync, nsyncs>>

NextMon ==
    \/ Tick
    \/ \E now \in SyncTimes : TimeSyncAt(now)
    \/ MonReading

SpecMon == Init /\ [][NextMon]_vars

\* the reading numbers of a batch, in the order of its entries
ReadingsOf(entries) == [i \in 1..Len(entries) |-> entries[i].reading]

\* the batch the last call of handle_reading put its entry into
Batch == IF hr.ret.some THEN hr.ret ELSE cur_upload

\* the last call reached handle_reading with a synchronized wall clock
Accepted == nreadings > 0 /\ hr.now.some

\* C21: with a synchronized wall clock handle_reading emits an Upload exactly
\* on the call that brings the open batch to 12 entries: after n accepted
\* readings floor(n/12) uploads have been emitted, an emitted Upload has
\* exactly 12 entries, the accepted reading is appended to the entries of the
\* open batch and is afterwards either in the emitted Upload or in the open
\* batch (so that each reading is in exactly one batch, in arrival order),
\* and between calls the open batch is absent or holds 1 to 11 entries.
C21_BatchOfTwelve ==
    /\ uploads_emitted = accepted \div BATCH_SIZE
    /\ hr.ret.some => Len(hr.ret.entries) = BATCH_SIZE
    /\ Accepted =>
          /\ hr.ret.some <=> Len(hr.before.entries) = BATCH_SIZE - 1
          /\ hr.ret.some => cur_upload = NoUpload
          /\ ReadingsOf(Batch.entries) =
                Append(ReadingsOf(hr.before.entries), hr.reading)
    /\ IF cur_upload.some
       THEN Len(cur_upload.entries) \in 1..(BATCH_SIZE - 1)
       ELSE cur_upload.entries = <<>>
    /\ Len(cur_upload.entries) = accepted % BATCH_SIZE

C21_Witness ==
    /\ Accepted
    /\ hr.ret.some
    /\ uploads_emitted = 2
    /\ accepted = 2 * BATCH_SIZE

\* C22: the 12th reading of a batch triggers exactly one Upload emission and
\* leaves no open batch; the 13th reading triggers none and starts a new
\* batch of one entry whose offset is 0.
C22_TwelfthEmits ==
    Accepted =>
       /\ accepted % BATCH_SIZE = 0 =>
             /\ hr.ret.some
             /\ Len(hr.before.entries) = BATCH_SIZE - 1
             /\ uploads_emitted = accepted \div BATCH_SIZE
             /\ ~cur_upload.some
       /\ accepted % BATCH_SIZE = 1 =>
             /\ ~hr.ret.some
             /\ ~hr.before.some
             /\ uploads_emitted = (accepted - 1) \div BATCH_SIZE
             /\ cur_upload.some
             /\ Len(cur_upload.entries) = 1
             /\ cur_upload.entries[1].offset = 0

C22_Witness ==
    /\ Accepted
    /\ accepted = BATCH_SIZE + 1
    /\ uploads_emitted = 1
    /\ cur_upload.some

\* C22 as stated: the 13th reading triggers the emission of the Upload and
\* starts a new batch whose first offset is 0.
C22_ThirteenthEmits ==
    (Accepted /\ accepted = BATCH_SIZE + 1) =>
       /\ hr.ret.some
       /\ cur_upload.some
       /\ cur_upload.entries[1].offset = 0

LastEntry(u) == u.entries[Len(u.entries)]

\* C23: when no batch is open, an accepted reading opens one with
\* start_timestamp equal to the wall-clock time of that reading and a single
\* entry at offset 0; every later entry of the batch carries
\* offset = (wall-clock time at that reading) - start_timestamp.
C23_Offsets ==
    Accepted =>
       IF ~hr.before.some
       THEN /\ Batch.start_timestamp = hr.now.t
            /\ Batch.entries = <<[offset |-> 0, reading |-> hr.reading]>>
       ELSE /\ Batch.start_timestamp = hr.before.start_timestamp
            /\ LastEntry(Batch).reading = hr.reading
            /\ LastEntry(Batch).offset = hr.now.t - hr.before.start_timestamp

\* the last call reached handle_reading while UtcTime::now() was None
Unaccepted == nreadings > 0 /\ ~hr.now.some

\* C24: while the wall clock is unsynchronized handle_reading drops the
\* reading: it returns no Upload, opens no batch and leaves self.upload as it
\* was; as the anchor is never cleared, no reading has been accepted and no
\* batch is open as long as the clock is unsynchronized.
C24_UnsyncedDrops ==
    /\ Unaccepted =>
          /\ ~hr.ret.some
          /\ cur_upload = hr.before
          /\ ~cur_upload.some
    /\ ~system_boot_time.some =>
          /\ cur_upload = NoUpload
          /\ accepted = 0
          /\ uploads_emitted = 0

C24_Witness ==
    /\ Unaccepted
    /\ hr.reading = 1
    /\ instant = 1
    /\ ~system_boot_time.some

\* C29: UtcTime::now() returns None until the first time_sync; after
\* time_sync(t) at the monotonic time m, now() at the monotonic time m' >= m
\* returns t + (m' - m) until the next time_sync, and it never returns None
\* again.
C29_Now ==
    /\ nsyncs = 0 => Now = None
    /\ nsyncs > 0 =>
          /\ instant >= last_sync.m
          /\ Now = Some(last_sync.t + (instant - last_sync.m))

C29_Witness ==
    /\ nsyncs = 2
    /\ last_sync.m = 0
    /\ instant = 1
    /\ Now = Some(last_sync.t + 1)

\* C30: with no time_sync in between the anchor is unchanged and a later
\* now() is never smaller than an earlier one; a time_sync whose computed
\* anchor equals the stored one leaves the anchor as it is, and one whose
\* anchor differs replaces it.
C30_Monotonic ==
    /\ [](nsyncs > 0 =>
            system_boot_time = Some(last_sync.t - last_sync.m))
    /\ [][IF nsyncs' = nsyncs
          THEN /\ system_boot_time' = system_boot_time
               /\ Now.some => Now'.some /\ Now'.t >= Now.t
          ELSE IF last_sync'.same
               THEN system_boot_time' = system_boot_time
               ELSE /\ system_boot_time' # system_boot_time
                    /\ system_boot_time' =
                          Some(last_sync'.t - last_sync'.m)]_vars

C30_Witness ==
    /\ nsyncs = 2
    /\ instant = 1
    /\ last_sync = [t |-> 61, m |-> 1, same |-> TRUE]
    /\ system_boot_time = Some(60)

(***************************************************************************)
(* sensor::ve_direct::FrameHandler.  A byte is a number in 0 .. 255, a     *)
(* label or a value the sequence of its bytes.                             *)
(***************************************************************************)

MaxVeChunks == 7

STRING_BUFFER_SIZE == 32

MAX_MESSAGES == 20

ByteCR == 13

ByteLF == 10

ByteTAB == 9

\* "Checksum"
ChecksumLabel == <<67, 104, 101, 99, 107, 115, 117, 109>>

\* "V", "I", "VPV", "PPV", "IL"
LabelV == <<86>>

LabelI == <<73>>

LabelVPV == <<86, 80, 86>>

LabelPPV == <<80, 80, 86>>

LabelIL == <<73, 76>>

\* Checksum::add
ChecksumAdd(value, byte) == (value + byte) % 256

IsValidAlways(value) == TRUE

\* Checksum::is_valid
IsValid(value) == value = 0

ClearKeeps(value) == value

\* Checksum::clear
ChecksumClear(value) == 0

\* heapless::Vec<u8, STRING_BUFFER_SIZE>::push, its result dropped
BufferPush(buffer, byte) ==
    IF Len(buffer) < STRING_BUFFER_SIZE THEN Append(buffer, byte) ELSE buffer

\* String::from_utf8, or String::new() for an invalid sequence; the bytes of
\* the model's labels and values are below 128 but for single ones, which
\* no encoding allows
FromUtf8(buffer) ==
    IF \A i \in 1..Len(buffer) : buffer[i] < 128 THEN buffer ELSE <<>>

\* LinearMap::insert, its result dropped
Insert(messages, label, value) ==
    IF \E i \in 1..Len(messages) : messages[i].label = label
    THEN [i \in 1..Len(messages) |->
             IF messages[i].label = label
             THEN [label |-> label, value |-> value]
             ELSE messages[i]]
    ELSE IF Len(messages) < MAX_MESSAGES
         THEN Append(messages, [label |-> label, value |-> value])
         ELSE messages

IsDigits(s) == s # <<>> /\ \A i \in 1..Len(s) : s[i] \in 48..57

RECURSIVE Decimal(_)
Decimal(s) ==
    IF s = <<>> THEN 0
    ELSE 10 * Decimal(SubSeq(s, 1, Len(s) - 1)) + (s[Len(s)] - 48)

\* the digits s, as many as those of m, spell a number that is at most m
AtMost(s, m) ==
    \/ s = m
    \/ \E i \in 1..Len(s) :
          /\ s[i] < m[i]
          /\ \A j \in 1..(i - 1) : s[j] = m[j]

\* the digits spell a number below 2^31, or 2^31 itself where that is allowed
FitsI32(s, min) ==
    \/ Len(s) < 10
    \/ /\ Len(s) = 10
       /\ AtMost(s, IF min THEN <<50, 49, 52, 55, 52, 56, 51, 54, 52, 56>>
                           ELSE <<50, 49, 52, 55, 52, 56, 51, 54, 52, 55>>)

\* the digits spell a number below 2^32
FitsU32(s) ==
    \/ Len(s) < 10
    \/ Len(s) = 10 /\ AtMost(s, <<52, 50, 57, 52, 57, 54, 55, 50, 57, 53>>)

Failed32 == [ok |-> FALSE, n |-> 0]

\* str::parse::<u32>
ParseU32(s) ==
    LET d == IF s # <<>> /\ s[1] = 43 THEN Tail(s) ELSE s
    IN  IF IsDigits(d) /\ FitsU32(d)
        THEN [ok |-> TRUE, n |-> Decimal(d)]
        ELSE Failed32

\* str::parse::<i32>
ParseI32(s) ==
    LET neg == s # <<>> /\ s[1] = 45
        d == IF s # <<>> /\ s[1] \in {43, 45} THEN Tail(s) ELSE s
    IN  IF IsDigits(d) /\ FitsI32(d, neg)
        THEN [ok |-> TRUE, n |-> IF neg THEN 0 - Decimal(d) ELSE Decimal(d)]
        ELSE Failed32

\* LinearMap: the value stored for the label, if there is one
Lookup(messages, label) ==
    IF \E i \in 1..Len(messages) : messages[i].label = label
    THEN [some |-> TRUE,
          value |-> (CHOOSE m \in {messages[i] : i \in 1..Len(messages)} :
                        m.label = label).value]
    ELSE [some |-> FALSE, value |-> <<>>]

\* a number of the Reading, n / per: the parsed value, or the 0.0 it starts
\* with where the frame gave no value or one that does not parse
Number(found, parsed, per) ==
    [n |-> IF found.some /\ parsed.ok THEN parsed.n ELSE 0, per |-> per]

U32Number(found, per) == Number(found, ParseU32(found.value), per)

I32Number(found, per) == Number(found, ParseI32(found.value), per)

\* read_next: the Reading of the values of a frame
ReadingOf(messages) ==
    [some |-> TRUE,
     battery_voltage |-> U32Number(Lookup(messages, LabelV), 1000),
     battery_current |-> I32Number(Lookup(messages, LabelI), 1000),
     panel_voltage |-> U32Number(Lookup(messages, LabelVPV), 1000),
     panel_power |-> U32Number(Lookup(messages, LabelPPV), 1),
     load_current |-> I32Number(Lookup(messages, LabelIL), 1000)]

\* run_once returns, and the next run_once starts to scan
RunOnceReturns(f, kind, bytes, reading, prev) ==
    [fh |-> [f EXCEPT !.pc = "scan"],
     frame |-> <<>>,
     out |-> [kind |-> kind, prev |-> prev.kind, frame |-> bytes,
              reading |-> reading]]

\* run_once, read_label and read_value: what one byte of the stream does
FeedByte(S, byte) ==
    LET f == S.fh
        sum == ChecksumAdd(f.checksum, byte)
        bytes == Append(S.frame, byte)
    IN  CASE f.pc = "scan" ->
               IF byte = ByteCR
               THEN [S EXCEPT !.fh.checksum = ChecksumAdd(f.checksum, ByteCR),
                              !.fh.messages = <<>>,
                              !.fh.pc = "byte",
                              !.frame = <<ByteCR>>]
               ELSE [S EXCEPT !.fh.checksum = ChecksumClear(f.checksum)]
          [] f.pc = "byte" ->
               [S EXCEPT !.fh.checksum = sum,
                         !.fh.label_buffer = <<>>,
                         !.fh.pc = "label",
                         !.frame = bytes]
          [] f.pc = "label" ->
               IF byte = ByteTAB
               THEN LET label == FromUtf8(f.label_buffer)
                    IN  IF label = ChecksumLabel
                        THEN [S EXCEPT !.fh.checksum = sum,
                                       !.fh.label_buffer = <<>>,
                                       !.fh.pc = "checksum",
                                       !.frame = bytes]
                        ELSE [S EXCEPT !.fh.checksum = sum,
                                       !.fh.label_buffer = <<>>,
                                       !.fh.label = label,
                                       !.fh.value_buffer = <<>>,
                                       !.fh.pc = "value",
                                       !.frame = bytes]
               ELSE [S EXCEPT !.fh.checksum = sum,
                              !.fh.label_buffer = BufferPush(@, byte),
                              !.frame = bytes]
          [] f.pc = "value" ->
               IF byte = ByteCR
               THEN [S EXCEPT !.fh.checksum = sum,
                              !.fh.messages =
                                  Insert(@, f.label, FromUtf8(f.value_buffer)),
                              !.fh.label = <<>>,
                              !.fh.value_buffer = <<>>,
                              !.fh.pc = "byte",
                              !.frame = bytes]
               ELSE [S EXCEPT !.fh.checksum = sum,
                              !.fh.value_buffer = BufferPush(@, byte),
                              !.frame = bytes]
          [] f.pc = "checksum" ->
               IF IsValid(sum)
               THEN RunOnceReturns([f EXCEPT !.checksum = ChecksumClear(sum),
                                       !.messages = <<>>],
                             "ok", bytes, ReadingOf(f.messages), S.out)
               ELSE RunOnceReturns([f EXCEPT !.checksum = ChecksumClear(sum),
                                       !.messages = <<>>],
                             "err", bytes, NoReading, S.out)

RECURSIVE Feed(_, _)
Feed(S, chunk) ==
    IF chunk = <<>> THEN S ELSE Feed(FeedByte(S, Head(chunk)), Tail(chunk))

\* the byte that brings the checksum to zero
Complement(value) == (256 - value) % 256

\* the runs of bytes the stream is made of: the carriage return that leads
\* a frame, the line "V<tab>1" and the line "P<tab>1" with the carriage
\* return after them, the line "Checksum<tab>", the bytes "1" and <tab> that
\* a disturbed line has too many; where the checksum byte is due, also the
\* byte that makes the frame valid and the one after it
Chunks ==
    {<<ByteCR>>,
     <<ByteLF>> \o LabelV \o <<ByteTAB, 49, ByteCR>>,
     <<ByteLF, 80, ByteTAB, 49, ByteCR>>,
     <<ByteLF>> \o ChecksumLabel \o <<ByteTAB>>,
     <<49>>,
     <<ByteTAB>>}
       \cup (IF fh.pc = "checksum"
             THEN {<<Complement(fh.checksum)>>,
                   <<ChecksumAdd(Complement(fh.checksum), 1)>>}
             ELSE {})

\* read_byte, for a run of bytes
VeRead(chunk) ==
    /\ ve_fed < MaxVeChunks
    /\ ve_fed' = ve_fed + 1
    /\ LET S == Feed([fh |-> fh, frame |-> frame, out |-> ve_out], chunk)
       IN  /\ fh' = S.fh
           /\ frame' = S.frame
           /\ ve_out' = S.out
    /\ UNCHANGED <<atVars, bodyVars, cloudVars, pipeVars, monVars, avgVars, cmdVars>>

NextVe == \E chunk \in Chunks : VeRead(chunk)

SpecVe == Init /\ [][NextVe]_vars

RECURSIVE ByteSum(_)
ByteSum(bytes) ==
    IF bytes = <<>> THEN 0 ELSE Head(bytes) + ByteSum(Tail(bytes))

\* the bytes hold the run of bytes somewhere
Contains(bytes, run) ==
    \E i \in 1..(Len(bytes) - Len(run) + 1) :
       SubSeq(bytes, i, i + Len(run) - 1) = run

\* C25: every Reading the parser produces comes from a frame whose bytes, from
\* the leading carriage return through the checksum byte, sum to 0 modulo
\* 256; a field with an unknown label ("P") is part of these bytes but not of
\* the Reading, which holds the number of the known label of the stream ("V")
\* if the frame has a line with it, and 0.0 for the labels the frame lacks.
C25_ChecksumZero ==
    /\ ve_out.reading.some <=> ve_out.kind = "ok"
    /\ ve_out.kind = "ok" =>
          /\ Head(ve_out.frame) = ByteCR
          /\ ByteSum(ve_out.frame) % 256 = 0
          /\ ve_out.reading.battery_voltage.n \in {0, 1}
          /\ ve_out.reading.battery_voltage.n = 1 =>
                Contains(ve_out.frame, LabelV \o <<ByteTAB, 49, ByteCR>>)
          /\ ve_out.reading.battery_current.n = 0
          /\ ve_out.reading.panel_voltage.n = 0
          /\ ve_out.reading.panel_power.n = 0
          /\ ve_out.reading.load_current.n = 0

C25_Witness ==
    /\ ve_out.kind = "ok"
    /\ Len(ve_out.frame) = 22
    /\ Contains(ve_out.frame, <<ByteLF, 80, ByteTAB, 49, ByteCR>>)
    /\ ve_out.reading.battery_voltage = [n |-> 1, per |-> 1000]

\* a label or a value of a well-formed frame: no control byte in it
IsText(bytes) ==
    \A i \in 1..Len(bytes) : bytes[i] \notin {ByteCR, ByteLF, ByteTAB}

\* the lines of a well-formed frame after its leading carriage return: lines
\* <LF>label<TAB>value<CR>, then <LF>Checksum<TAB> and one byte
RECURSIVE WellFormedLines(_)
WellFormedLines(rest) ==
    /\ Len(rest) >= Len(ChecksumLabel) + 3
    /\ Head(rest) = ByteLF
    /\ \/ /\ Len(rest) = Len(ChecksumLabel) + 3
          /\ SubSeq(rest, 2, Len(rest) - 1) = ChecksumLabel \o <<ByteTAB>>
       \/ \E t \in 3..Len(rest) : \E e \in (t + 1)..Len(rest) :
             /\ rest[t] = ByteTAB
             /\ rest[e] = ByteCR
             /\ IsText(SubSeq(rest, 2, t - 1))
             /\ SubSeq(rest, 2, t - 1) # ChecksumLabel
             /\ IsText(SubSeq(rest, t + 1, e - 1))
             /\ WellFormedLines(SubSeq(rest, e + 1, Len(rest)))

\* a well-formed frame: its lines, and a checksum byte that brings the sum of
\* its bytes to 0 modulo 256
WellFormed(bytes) ==
    /\ bytes # <<>>
    /\ Head(bytes) = ByteCR
    /\ WellFormedLines(Tail(bytes))
    /\ ByteSum(bytes) % 256 = 0

\* C26: on a checksum mismatch the parser produces no reading, clears the
\* checksum and scans for a carriage return again; the checksum is zero
\* whenever run_once starts, after a valid frame too, so that the parser
\* returns at the last byte of every well-formed frame that starts where it
\* scans, and returns it as valid, whether the frame before was valid or had
\* a bad checksum.
C26_Resynchronizes ==
    /\ ve_out.kind = "err" =>
          /\ ~ve_out.reading.some
          /\ ByteSum(ve_out.frame) % 256 # 0
    /\ fh.pc = "scan" <=> frame = <<>>
    /\ fh.pc = "scan" => fh.checksum = 0
    /\ ~WellFormed(frame)
    /\ WellFormed(ve_out.frame) => ve_out.kind = "ok"

C26_Witness ==
    /\ ve_out.prev = "err"
    /\ ve_out.kind = "ok"
    /\ WellFormed(ve_out.frame)
    /\ fh.pc = "scan"
    /\ fh.checksum = 0

(***************************************************************************)
(* sensor::ve_direct::Averaging and Runner.  The numbers of a Reading are  *)
(* integers, a quotient is the fraction in lowest terms; the rounding of   *)
(* f32 is left out.  An Averaging is used by a Runner or, as in            *)
(* tests::averaging, on its own.                                           *)
(***************************************************************************)

MaxAvgCalls == 4

MaxAvgReadings == 5

MaxVeClock == 5

\* Runner: average_interval, in ticks of the clock
AverageInterval == 2

\* the readings read_next returns
AvgReadings ==
    {[battery_voltage |-> 12, battery_current |-> 1, panel_voltage |-> 22,
      panel_power |-> 50, load_current |-> 8],
     [battery_voltage |-> 13, battery_current |-> 0 - 2, panel_voltage |-> 18,
      panel_power |-> 52, load_current |-> 2]}

Fields == DOMAIN ZeroReading

RECURSIVE Gcd(_, _)
Gcd(a, b) == IF b = 0 THEN a ELSE Gcd(b, a % b)

\* sum / count as f32
Quotient(a, n) ==
    LET g == Gcd(IF a < 0 THEN 0 - a ELSE a, n)
    IN  [num |-> a \div g, den |-> n \div g]

\* Averaging::add_reading
AddReading(avg, reading) ==
    [sum |-> [f \in Fields |-> avg.sum[f] + reading[f]],
     count |-> avg.count + 1]

AverageKeepsSum(avg) ==
    IF avg.count = 0
    THEN [ret |-> NoAverage, averaging |-> avg]
    ELSE [ret |-> [some |-> TRUE,
                   reading |-> [f \in Fields |-> Quotient(avg.sum[f], avg.count)],
                   count |-> avg.count],
          averaging |-> avg]

\* Averaging::average: what it returns, and the Averaging it leaves
Average(avg) ==
    IF avg.count = 0
    THEN [ret |-> NoAverage, averaging |-> avg]
    ELSE [ret |-> [some |-> TRUE,
                   reading |-> [f \in Fields |-> Quotient(avg.sum[f], avg.count)],
                   count |-> avg.count],
          averaging |-> NoAveraging]

\* tests::averaging: storage.add_reading
StorageAdd(reading) ==
    /\ apc = "new"
    /\ ve_clock = 0
    /\ avg_calls < MaxAvgCalls
    /\ avg_calls' = avg_calls + 1
    /\ averaging' = AddReading(averaging, reading)
    /\ collected' = Append(collected, reading)
    /\ avg_call' = [op |-> "add", prev |-> avg_call.op, before |-> averaging,
                    ret |-> NoAverage, inputs |-> collected']
    /\ UNCHANGED <<atVars, bodyVars, cloudVars, pipeVars, monVars, veVars, cmdVars,
                   apc, ve_clock, ve_end, avg_sent, read_at, n_validated,
                   n_averaged>>

\* tests::averaging: storage.average
StorageAverage ==
    /\ apc = "new"
    /\ ve_clock = 0
    /\ avg_calls < MaxAvgCalls
    /\ avg_calls' = avg_calls + 1
    /\ averaging' = Average(averaging).averaging
    /\ collected' = <<>>
    /\ avg_call' = [op |-> "average", prev |-> avg_call.op,
                    before |-> averaging, ret |-> Average(averaging).ret,
                    inputs |-> collected]
    /\ UNCHANGED <<atVars, bodyVars, cloudVars, pipeVars, monVars, veVars, cmdVars,
                   apc, ve_clock, ve_end, avg_sent, read_at, n_validated,
                   n_averaged>>

\* the clock of the sensor task advances
AvgTick ==
    /\ avg_calls = 0
    /\ ve_clock < MaxVeClock
    /\ ve_clock' = ve_clock + 1
    /\ UNCHANGED <<atVars, bodyVars, cloudVars, pipeVars, monVars, veVars, cmdVars,
                   averaging, apc, ve_end, collected, avg_call, avg_calls,
                   avg_sent, read_at, n_validated, n_averaged>>

\* averaging_once: let end = Instant::now() + self.average_interval
AveragingOnce ==
    /\ avg_calls = 0
    /\ apc \in {"new", "once"}
    /\ ve_end' = ve_clock + AverageInterval
    /\ apc' = "read"
    /\ UNCHANGED <<atVars, bodyVars, cloudVars, pipeVars, monVars, veVars, cmdVars,
                   averaging, ve_clock, collected, avg_call, avg_calls, avg_sent,
                   read_at, n_validated, n_averaged>>

DueAlways(now, end) == TRUE

\* averaging_once: Instant::now() >= end
Due(now, end) == now >= end

\* averaging_once: read_next returns a reading, which is added, and the
\* average is taken and its send begun if the interval is over
AvgReadNext(reading) ==
    /\ apc = "read"
    /\ n_validated < MaxAvgReadings
    /\ n_validated' = n_validated + 1
    /\ read_at' = ve_clock
    /\ LET added == AddReading(averaging, reading)
           inputs == Append(collected, reading)
           result == Average(added)
       IN  IF Due(ve_clock, ve_end)
           THEN /\ averaging' = result.averaging
                /\ collected' = <<>>
                /\ avg_call' = [op |-> "average", prev |-> "add",
                                before |-> added, ret |-> result.ret,
                                inputs |-> inputs]
                /\ IF result.ret.some
                   THEN /\ avg_sent' = [some |-> TRUE,
                                    reading |-> result.ret.reading,
                                    count |-> result.ret.count,
                                    at |-> ve_clock, prev_at |-> avg_sent.at,
                                    n |-> avg_sent.n + 1]
                        /\ n_averaged' = n_averaged + result.ret.count
                        /\ apc' = "send"
                   ELSE /\ apc' = "reset"
                        /\ UNCHANGED <<avg_sent, n_averaged>>
           ELSE /\ averaging' = added
                /\ collected' = inputs
                /\ avg_call' = [op |-> "add", prev |-> avg_call.op,
                                before |-> averaging, ret |-> NoAverage,
                                inputs |-> inputs]
                /\ UNCHANGED <<apc, avg_sent, n_averaged>>
    /\ UNCHANGED <<atVars, bodyVars, cloudVars, pipeVars, monVars, veVars, cmdVars,
                   ve_clock, ve_end, avg_calls>>

\* averaging_once: self.rx.send(average) completes, or the warning is
\* logged; self.averaging = Averaging::default(); break
AvgSent ==
    /\ apc \in {"send", "reset"}
    /\ averaging' = NoAveraging
    /\ apc' = "once"
    /\ UNCHANGED <<atVars, bodyVars, cloudVars, pipeVars, monVars, veVars, cmdVars,
                   ve_clock, ve_end, collected, avg_call, avg_calls, avg_sent,
                   read_at, n_validated, n_averaged>>

NextAvg ==
    \/ \E reading \in AvgReadings : StorageAdd(reading)
    \/ StorageAverage
    \/ AvgTick
    \/ AveragingOnce
    \/ \E reading \in AvgReadings : AvgReadNext(reading)
    \/ AvgSent

SpecAvg == Init /\ [][NextAvg]_vars

RECURSIVE FieldSum(_, _)
FieldSum(readings, f) ==
    IF readings = <<>> THEN 0
    ELSE Head(readings)[f] + FieldSum(Tail(readings), f)

\* the reading is the mean of the inputs, number by number
IsMean(reading, inputs) ==
    \A f \in Fields :
       /\ reading[f].den > 0
       /\ reading[f].num * Len(inputs) = reading[f].den * FieldSum(inputs, f)

\* C27: average() returns None and changes nothing when count = 0; otherwise
\* it returns the sum divided by count, number by number, together with
\* count, and leaves sum and count zero, so that a second average() without
\* a new reading returns None; every average the runner sends has
\* count >= 1.
C27_Average ==
    /\ averaging.count = Len(collected)
    /\ \A f \in Fields : averaging.sum[f] = FieldSum(collected, f)
    /\ avg_call.op = "average" =>
          IF avg_call.before.count = 0
          THEN /\ ~avg_call.ret.some
               /\ averaging = avg_call.before
          ELSE /\ avg_call.ret.some
               /\ avg_call.ret.count = avg_call.before.count
               /\ avg_call.ret.count = Len(avg_call.inputs)
               /\ IsMean(avg_call.ret.reading, avg_call.inputs)
               /\ averaging = NoAveraging
    /\ avg_call.op = "average" /\ avg_call.prev = "average" =>
          ~avg_call.ret.some
    /\ avg_sent.some => avg_sent.count >= 1

C27_Witness ==
    /\ avg_calls = 4
    /\ avg_call.op = "average"
    /\ avg_call.prev = "average"
    /\ ~avg_call.ret.some
    /\ averaging = NoAveraging

\* C28: the runner sends an average when a reading arrives with the clock at
\* least averaging_interval past the start of the interval, and only then:
\* an emission is no earlier than averaging_interval after the one before
\* (the first, after the start of the runner), its average is the mean of
\* the readings read_next returned since the emission before, each reading
\* returned is in exactly one average or still in the accumulator, and the
\* accumulator is empty right after an emission.
C28_Interval ==
    /\ avg_sent.some =>
          /\ avg_sent.at - avg_sent.prev_at >= AverageInterval
          /\ avg_sent.count >= 1
    /\ apc = "send" =>
          /\ averaging = NoAveraging
          /\ collected = <<>>
          /\ avg_sent.some
          /\ avg_sent.at = read_at
          /\ avg_sent.count = Len(avg_call.inputs)
          /\ avg_sent.reading = avg_call.ret.reading
          /\ IsMean(avg_sent.reading, avg_call.inputs)
    /\ apc = "read" /\ collected # <<>> => read_at < ve_end
    /\ apc # "new" => n_validated = n_averaged + Len(collected)
    /\ apc # "reset"

C28_Witness ==
    /\ apc = "send"
    /\ avg_sent.n = 2
    /\ avg_sent.count = 2
    /\ avg_sent.at - avg_sent.prev_at > AverageInterval

\* C40: in every emitted Upload the first entry has offset 0 and the offsets
\* are non-negative and non-decreasing in entry order, also when time_sync
\* moves the wall clock while a batch is open.
C40_OffsetsOrdered ==
    hr.ret.some =>
       /\ hr.ret.entries[1].offset = 0
       /\ \A i \in 1..Len(hr.ret.entries) : hr.ret.entries[i].offset >= 0
       /\ \A i \in 1..(Len(hr.ret.entries) - 1) :
             hr.ret.entries[i].offset <= hr.ret.entries[i + 1].offset

(***************************************************************************)
(* status_control: parsing the reply of AT+CCLK?                           *)
(***************************************************************************)

\* the largest time zone field of the replies drawn, in quarters of an hour
MaxRtcTz == 8



\* the replies +CCLK: "YY/MM/DD,HH:MM:SS+TZ" drawn, as the fields the
\* parsers read
RtcLines ==
    [year : {24, 25}, month : {1, 2, 3, 11, 12}, day : {1, 24, 28, 29, 30, 31},
     hour : {0, 2, 21, 23}, min : {0, 19}, sec : {7},
     sign : {"+", "-"}, tz : 0..MaxRtcTz]

IsLeapYear(year) == (year % 4 = 0 /\ year % 100 # 0) \/ year % 400 = 0

DaysInMonth(year, month) ==
    CASE month \in {1, 3, 5, 7, 8, 10, 12} -> 31
      [] month \in {4, 6, 9, 11} -> 30
      [] OTHER -> IF IsLeapYear(year) THEN 29 ELSE 28

\* NaiveDate::from_ymd_opt: Some for a date of the calendar
FromYmdOpt(year, month, day) ==
    month \in 1..12 /\ day \in 1..DaysInMonth(year, month)

\* NaiveTime::from_hms_opt: Some for a time of the day
FromHmsOpt(hour, min, sec) == hour < 24 /\ min < 60 /\ sec < 60

\* NaiveTime + Duration: the time of the day wraps around midnight and the
\* days that passed are dropped
NaiveTimeAdd(secs, duration) == (secs + duration) % 86400

\* parse_rtc_time: the local time of the day moved by the time zone
ParseRtcTime(line) ==
    LET local == (line.hour * 60 + line.min) * 60 + line.sec
        offset == 15 * line.tz * 60
    IN  CASE line.sign = "+" -> NaiveTimeAdd(local, 0 - offset)
          [] line.sign = "-" -> NaiveTimeAdd(local, offset)
          [] OTHER -> local

\* parse_rtc_date_time: the date of the reply with the time parse_rtc_time
\* returned (date.and_time(time))
ParseRtcDateTime(line) ==
    IF FromYmdOpt(line.year + 2000, line.month, line.day)
       /\ FromHmsOpt(line.hour, line.min, line.sec)
    THEN [kind |-> "ok", year |-> line.year + 2000, month |-> line.month,
          day |-> line.day, secs |-> ParseRtcTime(line)]
    ELSE [kind |-> "err", year |-> 0, month |-> 0, day |-> 0, secs |-> 0]

\* query_real_time_clock: the reply is parsed
QueryRealTimeClock ==
    /\ rtc_parsed.kind = "none"
    /\ rtc_parsed' = ParseRtcDateTime(rtc_line)
    /\ UNCHANGED <<atVars, bodyVars, cloudVars, pipeVars, monVars, veVars,
                   avgVars, rtc_line>>

NextRtc == QueryRealTimeClock

InitRtc ==
    /\ AtInit
    /\ BodyInit
    /\ CloudInit
    /\ PipeInit
    /\ MonInit
    /\ VeInit
    /\ AvgInit
    /\ rtc_line \in RtcLines
    /\ rtc_parsed = NoRtcParse

SpecRtc == InitRtc /\ [][NextRtc]_vars

\* days from 2000-01-01 to the first day of the year
DaysBeforeYear(year) ==
    365 * (year - 2000)
    + ((year - 1) \div 4 - (year - 1) \div 100 + (year - 1) \div 400)
    - (1999 \div 4 - 1999 \div 100 + 1999 \div 400)

DaysBeforeMonth(year, month) ==
    <<0, 31, 59, 90, 120, 151, 181, 212, 243, 273, 304, 334>>[month]
    + (IF month > 2 /\ IsLeapYear(year) THEN 1 ELSE 0)

\* the instant of a date and a time of the day, in seconds since 2000-01-01
InstantOf(year, month, day, secs) ==
    (DaysBeforeYear(year) + DaysBeforeMonth(year, month) + day - 1)
       * 86400 + secs

\* the local date-time of the reply as an instant
LocalInstant(line) ==
    InstantOf(line.year + 2000, line.month, line.day,
              (line.hour * 60 + line.min) * 60 + line.sec)

\* C31: the parsed value is the instant of the local date-time minus
\* 15 * tz minutes for the sign '+' and plus 15 * tz minutes for the sign '-',
\* also when the adjustment crosses midnight and changes the date.
C31_RtcUtc ==
    rtc_parsed.kind = "ok" =>
        InstantOf(rtc_parsed.year, rtc_parsed.month, rtc_parsed.day,
                  rtc_parsed.secs)
        = LocalInstant(rtc_line)
          + (IF rtc_line.sign = "+" THEN 0 - 1 ELSE 1) * 15 * rtc_line.tz * 60

\* C33: no bounded buffer truncates silently: while the frame handler reads a
\* value and has returned no error, the value buffer holds every byte fed to
\* it, so it ends with the bytes the frame ends with.
C33_NoSilentTruncation ==
    fh.pc = "value" =>
        fh.value_buffer
        = SubSeq(frame, Len(frame) - Len(fh.value_buffer) + 1, Len(frame))

\* C32: the RTC read inside startup_network is best-effort: whatever the
\* modem answers to its AT+CCLK?, startup_network returns Ok and
\* handle_startup goes on to its own RTC query; the controller does not reset.
C32_RtcBestEffort ==
    [][(cloud_pc = "rtc_network" /\ cloud_pc' # cloud_pc) => cloud_pc' = "rtc"]_vars

\* C35: a payload received from the upload channel is never discarded by an
\* error: the controller lets go of the payload it is posting only when the
\* POST is complete.
C35_PayloadKept ==
    [][(cloud_job = "reading" /\ cloud_job' # "reading") => cloud_pc = "uploaded"]_vars

\* C34: a lease is never held forever: whenever handle_command,
\* handle_http_read or handle_http_write waits for a byte of the modem that
\* has not arrived, a timer is running that ends the wait.
C34_BoundedWaits ==
    (cpc = "closure" /\ running = "none" /\ stream = <<>>
        /\ phase \notin {"write", "write_body"})
    => ENABLED ClosureTimeout

\* http::action after send: the fields that follow the tag "+HTTPACTION: "
\* on line 0 of the response
HttpAction(resp) ==
    IF ~resp.ok THEN [ok |-> FALSE, err |-> resp.err, fields |-> <<>>]
    ELSE IF resp.lines = <<>>
    THEN [ok |-> FALSE, err |-> "ResponseLineCountMismatch", fields |-> <<>>]
    ELSE LET line == Bytes(resp.lines[1])
         IN  IF StartsWith(line, S_HTTPACTION_URC)
             THEN [ok |-> TRUE, err |-> "none",
                   fields |-> SubSeq(line, Len(S_HTTPACTION_URC) + 1, Len(line))]
             ELSE [ok |-> FALSE, err |-> "ParseError", fields |-> <<>>]

\* C38: once handle_command has read a line starting with "+HTTPACTION: "
\* after the OK of AT+HTTPACTION, http::action returns the fields of the
\* first such line, whatever other lines were read before it.
C38_ActionFirstUrc ==
    (op.kind = "command" /\ op.command = S_HTTPACTION_CMD /\ op.has_prefix
        /\ cpc = "drop" /\ OkAt(ReadLines) # 0
        /\ PrefixAt(AfterOk(ReadLines)) # 0) =>
        LET ao == AfterOk(ReadLines)
            urc == ao[PrefixAt(ao)]
        IN  /\ HttpAction(response).ok
            /\ HttpAction(response).fields
               = SubSeq(urc, Len(S_HTTPACTION_URC) + 1, Len(urc))

(***************************************************************************)
(* handle_command on a controller whose modem sends a line longer than     *)
(* AT_BUFFER_SIZE in reply to the first command                            *)
(***************************************************************************)

MaxLongCalls == 3
MaxLongChunks == 2

\* a line of AT_BUFFER_SIZE + 2 bytes
LongLine == [i \in 1..(AT_BUFFER_SIZE + 2) |-> "x"]

\* ctr.handle_command(&req) is called
LongCall ==
    /\ running \in {"none", "client"}
    /\ cpc = "idle"
    /\ calls < MaxLongCalls
    /\ cpc' = "closure"
    /\ op' = AtCommandRequest(S_CSQ)
    /\ phase' = "write"
    /\ lines' = <<>>
    /\ buf' = <<>>
    /\ response' = NoResult
    /\ events' = <<>>
    /\ steps' = <<>>
    /\ calls' = calls + 1
    /\ running' = "client"
    /\ UNCHANGED <<extVars, runnerVars, chanVars, mutex, stream, line_buffer, have_cr,
                   writeVars, modemVars, ret, cancels, urc_log>>

\* what the modem may send for the command e it is answering: the over-long
\* line is part of the reply to the first command only
LongChoices(e) ==
    { Choice(Line(S_OK, e.k), "pop") }
    \cup (IF e.k = 1 /\ e.m = "reply"
          THEN {Choice(Line(LongLine, e.k), "more")} ELSE {})

LongModemSend ==
    /\ running = "none"
    /\ stream = <<>>
    /\ sent < MaxLongChunks
    /\ modem_todo # <<>>
    /\ \E c \in LongChoices(Head(modem_todo)) :
            /\ stream' = c.chunk
            /\ modem_todo' = (IF c.next = "pop" THEN <<>>
                              ELSE <<[Head(modem_todo) EXCEPT !.m = c.next]>>)
                             \o Tail(modem_todo)
    /\ sent' = sent + 1
    /\ UNCHANGED <<extVars, runnerVars, chanVars, mutex, line_buffer, have_cr, opVars,
                   writeVars, leaseVars, urc_log, running>>

NextLong ==
    \/ LongCall
    \/ ClosureWrite
    \/ ClosureIoError
    \/ ClosureReadByte
    \/ ClosureTimeout
    \/ CtrReturn
    \/ ClientYield
    \/ LongModemSend

SpecLong == Init /\ [][NextLong]_vars

\* C37: a line longer than AT_BUFFER_SIZE fails only the command in flight
\* when the overflow occurs: the command submitted after one that returned
\* CapacityError, whose own reply fits, does not fail with CapacityError.
C37_OverflowFailsOneCommand ==
    (cpc = "drop" /\ calls >= 2 /\ ret = Err("CapacityError")) =>
        response.err # "CapacityError"

\* C36: replies never get out of step with requests: whenever no
\* use_controller call is in progress the reply channel is empty and the
\* runner is in UrcPoll, also after a use_controller future was dropped
\* between sending a message and receiving its reply.
C36_RepliesInStep ==
    cpc = "idle" => (rx_channel = <<>> /\ state = "UrcPoll")

(***************************************************************************)
(* The hand-over of the controller between the runner's poll_urc and a     *)
(* client: the modem sends an unsolicited line in two parts                *)
(***************************************************************************)

MaxHandCalls == 2
MaxHandChunks == 3

\* use_controller is called with the closure of at()
HandCall ==
    /\ running \in {"none", "client"}
    /\ cpc = "idle"
    /\ calls < MaxHandCalls
    /\ cpc' = "send_acquire"
    /\ op' = AtCommandRequest(S_AT)
    /\ phase' = "none"
    /\ lines' = <<>>
    /\ buf' = <<>>
    /\ response' = NoResult
    /\ events' = <<>>
    /\ steps' = <<>>
    /\ calls' = calls + 1
    /\ running' = "client"
    /\ UNCHANGED <<extVars, runnerVars, chanVars, mutex, stream, line_buffer, have_cr,
                   writeVars, modemVars, ret, cancels, urc_log>>

\* the part of an unsolicited line the modem has still to send
UrcRest == [k |-> 0, o |-> NoOp, m |-> "urc_rest"]

\* what the modem sends next: the rest of the line it is sending, or the
\* first byte of an unsolicited line, or OK for the oldest command
HandChoices ==
    IF modem_todo # <<>> /\ Head(modem_todo) = UrcRest
    THEN { [chunk |-> Tagged(SubSeq(Crlf(S_URC), 2, Len(S_URC) + 2), 0, FALSE),
            todo |-> Tail(modem_todo)] }
    ELSE { [chunk |-> Tagged(SubSeq(S_URC, 1, 1), 0, FALSE),
            todo |-> <<UrcRest>> \o modem_todo] }
         \cup (IF modem_todo # <<>>
               THEN { [chunk |-> Line(S_OK, Head(modem_todo).k),
                       todo |-> Tail(modem_todo)] }
               ELSE {})

HandModemSend ==
    /\ running = "none"
    /\ stream = <<>>
    /\ sent < MaxHandChunks
    /\ \E c \in HandChoices :
            /\ stream' = c.chunk
            /\ modem_todo' = c.todo
    /\ sent' = sent + 1
    /\ UNCHANGED <<extVars, runnerVars, chanVars, mutex, line_buffer, have_cr, opVars,
                   writeVars, leaseVars, urc_log, running>>

NextHand ==
    \/ HandCall
    \/ ClientNext
    \/ Cancel
    \/ RunnerNext
    \/ HandModemSend

SpecHand == Init /\ [][NextHand]_vars

\* the lines read_line has returned: to handle_urc, and to the operation in
\* progress
ReturnedLines ==
    {Bytes(urc_log[i]) : i \in 1..Len(urc_log)}
    \cup {ReadLines[i] : i \in 1..Len(ReadLines)}

\* a step that read a byte returned the line buffer as a line
ReturnsLine ==
    \/ urc_log' = Append(urc_log, line_buffer)
    \/ events' = Append(events, LineEv(line_buffer))

\* C39: no modem byte is lost or duplicated at the hand-over between runner
\* and client: every line read_line returns is a whole line of the modem's
\* stream; the line buffer changes only by the byte just read from the head
\* of the stream or by being returned whole as a line; and every byte read
\* is a line terminator or is kept in the line buffer.
C39_NoByteLost ==
    /\ [](ReturnedLines \subseteq {S_URC, S_OK})
    /\ [][/\ line_buffer' # line_buffer =>
                /\ stream # <<>>
                /\ stream' = Tail(stream)
                /\ \/ line_buffer' = Append(line_buffer, Head(stream))
                   \/ Head(stream).b = LF /\ line_buffer' = <<>> /\ ReturnsLine
          /\ (stream # <<>> /\ stream' # stream) =>
                /\ stream' = Tail(stream)
                /\ \/ Head(stream).b = CR /\ line_buffer' = line_buffer
                   \/ Head(stream).b = LF /\ line_buffer = <<>>
                                          /\ line_buffer' = <<>>
                   \/ Head(stream).b = LF /\ line_buffer' = <<>> /\ ReturnsLine
                   \/ /\ Head(stream).b \notin {CR, LF}
                      /\ line_buffer' = Append(line_buffer, Head(stream))
         ]_vars

\* the Acquire of the first call interrupted poll_urc in the middle of a
\* line: the client holds the controller, has read nothing yet, and the
\* line buffer holds the byte the runner read
C39_Witness ==
    /\ calls = 1
    /\ cancels = 0
    /\ mutex = "client"
    /\ cpc = "closure"
    /\ phase = "write"
    /\ state = "AtControllerAcquired"
    /\ Bytes(line_buffer) = SubSeq(S_URC, 1, 1)

====
